---- MODULE Spec2Model ----
(***************************************************************************)
(* Model of the request-boundary layer of voice-clone-app:                 *)
(*   lib/security.ts   checkRateLimit, validateAudioFile,                  *)
(*                     sanitizeTextInput, sanitizeErrorMessage             *)
(*   app/api/tts/route.ts, app/api/create-model/route.ts   POST handlers   *)
(*                                                                         *)
(* Strings are sequences of one-character strings, files are sequences of  *)
(* byte values, time is the millisecond clock read by Date.now().          *)
(***************************************************************************)
EXTENDS Integers, Sequences, FiniteSets, TLC

VARIABLES
    rateLimitStore, \* security.ts:129  Map identifier -> {count, resetTime}
    now,            \* the clock read by Date.now()
    maxRequests,    \* limiter specification: the budget passed on every call
    windowMs,       \* limiter specification: the window passed on every call
    log,            \* limiter specification: the calls made so far, in order
    upload,         \* validator specification: the file at filePath and the
                    \* content type the client declared for it
    audioResult,    \* validator specification: what validateAudioFile returned
    textIn,         \* sanitizer specification: the input string
    textOnce,       \* sanitizer specification: sanitizeTextInput(textIn)
    textTwice,      \* sanitizer specification: sanitizeTextInput(textOnce)
    textStage,      \* sanitizer specification: how many times it was applied
    errIn,          \* error specification: the value handed to sanitizeErrorMessage
    errOut,         \* error specification: the string it returned
    errStage,       \* error specification: 1 once it has returned
    admitted,       \* handlers: per identifier and endpoint, the requests that
                    \* passed the rate-limit step in the identifier's current window
    lastRequest,    \* handlers: the latest request and what its rate-limit step did
    nameIn,         \* file-name specification: the value handed to sanitizeFileName
    nameOnce,       \* file-name specification: sanitizeFileName(nameIn)
    nameTwice,      \* file-name specification: sanitizeFileName(nameOnce)
    nameStage,      \* file-name specification: how many times it was applied
    models,         \* db.ts:50-55  the rows of table models, in insertion order
    files,          \* the files on disk: temporary uploads and generated audio
    served,         \* the requests received so far
    create,         \* create-model handler: per request slot, its locals and
                    \* where it is suspended
    tts,            \* tts handler: the request's locals and where it is suspended
    list,           \* list-models handler: the response of the latest GET
    envIn,          \* configuration specification: process.env at start-up
    config,         \* configuration specification: what the loader produced
    configStage     \* configuration specification: 1 once the loader has run

limiterVars == <<rateLimitStore, now, maxRequests, windowMs, log>>
audioVars == <<upload, audioResult>>
textVars == <<textIn, textOnce, textTwice, textStage>>
errVars == <<errIn, errOut, errStage>>
gateVars == <<admitted, lastRequest>>
fileNameVars == <<nameIn, nameOnce, nameTwice, nameStage>>
worldVars == <<models, files, served>>
createVars == <<create>>
ttsVars == <<tts>>
listVars == <<list>>
configVars == <<envIn, config, configStage>>
vars == <<limiterVars, audioVars, textVars, errVars, gateVars,
          fileNameVars, worldVars, createVars, ttsVars, listVars, configVars>>

(***************************************************************************)
(* Bounds of the model.                                                    *)
(***************************************************************************)
MaxBudget == 2      \* maxRequests ranges over 0..MaxBudget
MaxWindow == 2      \* windowMs ranges over 0..MaxWindow
MaxTime == 3        \* the clock runs over 0..MaxTime
MaxCalls == 4       \* calls recorded in the log
MaxFileLen == 9     \* uploaded files hold 0..MaxFileLen bytes
MaxTextChunks == 3  \* text inputs are made of 0..MaxTextChunks fragments
MaxErrorChunks == 4 \* error messages are made of 0..MaxErrorChunks fragments
MaxClockSteps == 3  \* handlers: the clock advances at most this many times

Identifiers == {"ip1", "ip2"}

(***************************************************************************)
(* security.ts:134-158  checkRateLimit                                     *)
(***************************************************************************)
\* security.ts:142  `now > entry.resetTime`
WindowExpiredAtReset(entry, t) == t >= entry.resetTime
WindowExpired(entry, t) == t > entry.resetTime

\* security.ts:142  `!entry || now > entry.resetTime`
StartsWindow(store, identifier, t) ==
    \/ identifier \notin DOMAIN store
    \/ WindowExpired(store[identifier], t)

\* security.ts:144-147  the entry a new window starts with
FreshEntryNoWindow(t, w) == [count |-> 1, resetTime |-> t]
FreshEntry(t, w) == [count |-> 1, resetTime |-> t + w]

\* security.ts:151  `entry.count >= maxRequests`
BudgetSpentOffByOne(entry, n) == entry.count > n
BudgetSpent(entry, n) == entry.count >= n

\* security.ts:138-158  the value checkRateLimit returns
checkRateLimitResult(store, identifier, n, w, t) ==
    IF StartsWindow(store, identifier, t)
    THEN [allowed |-> TRUE]
    ELSE IF BudgetSpent(store[identifier], n)
    THEN [allowed |-> FALSE, resetTime |-> store[identifier].resetTime]
    ELSE [allowed |-> TRUE]

\* security.ts:138-158  the store checkRateLimit leaves behind
checkRateLimitStoreCountsDenied(store, identifier, n, w, t) ==
    IF StartsWindow(store, identifier, t)
    THEN (identifier :> FreshEntry(t, w)) @@ store
    ELSE [store EXCEPT ![identifier].count = @ + 1]
checkRateLimitStore(store, identifier, n, w, t) ==
    IF StartsWindow(store, identifier, t)
    THEN (identifier :> FreshEntry(t, w)) @@ store
    ELSE IF BudgetSpent(store[identifier], n)
    THEN store
    ELSE [store EXCEPT ![identifier].count = @ + 1]

(***************************************************************************)
(* The limiter on its own: one budget and one window for the whole run,    *)
(* calls for any identifier at non-decreasing times.                       *)
(***************************************************************************)
\* What a call's log record shows for an identifier: its entry, or a
\* placeholder when the map has none (hadEntry tells the two apart).
EntryOrNone(store, identifier) ==
    IF identifier \in DOMAIN store THEN store[identifier]
    ELSE [count |-> 0, resetTime |-> 0]

\* The state of the components a specification leaves out.
NotRun == [run |-> FALSE]
AudioIdle == upload = NotRun /\ audioResult = NotRun
TextIdle == textIn = <<>> /\ textOnce = <<>> /\ textTwice = <<>> /\ textStage = 0
ErrIdle == errIn = NotRun /\ errOut = <<>> /\ errStage = 0
GateIdle == admitted = <<>> /\ lastRequest = NotRun
FileNameIdle ==
    nameIn = NotRun /\ nameOnce = <<>> /\ nameTwice = <<>> /\ nameStage = 0
ListIdle == list = NotRun
ConfigIdle == envIn = NotRun /\ config = NotRun /\ configStage = 0
HandlersIdle ==
    models = <<>> /\ files = {} /\ served = 0 /\ create = <<>> /\ tts = NotRun

InitLimiter ==
    /\ ListIdle
    /\ ConfigIdle
    /\ rateLimitStore = <<>>
    /\ now = 0
    /\ maxRequests \in 0..MaxBudget
    /\ windowMs \in 0..MaxWindow
    /\ log = <<>>
    /\ AudioIdle
    /\ TextIdle
    /\ ErrIdle
    /\ GateIdle
    /\ FileNameIdle
    /\ HandlersIdle

\* One call checkRateLimit(identifier, maxRequests, windowMs) at time now.
CheckRateLimit(identifier) ==
    /\ Len(log) < MaxCalls
    /\ rateLimitStore' =
           checkRateLimitStore(rateLimitStore, identifier, maxRequests, windowMs, now)
    /\ log' = Append(log,
           [identifier |-> identifier,
            time |-> now,
            hadEntry |-> identifier \in DOMAIN rateLimitStore,
            before |-> EntryOrNone(rateLimitStore, identifier),
            after |-> EntryOrNone(
                checkRateLimitStore(rateLimitStore, identifier,
                                    maxRequests, windowMs, now), identifier),
            result |-> checkRateLimitResult(rateLimitStore, identifier,
                                            maxRequests, windowMs, now)])
    /\ UNCHANGED <<listVars, configVars, now, maxRequests, windowMs, audioVars, textVars, errVars, gateVars,
                 fileNameVars, worldVars, createVars, ttsVars>>

\* Date.now() moves on between calls.
Tick ==
    /\ now < MaxTime
    /\ now' = now + 1
    /\ UNCHANGED <<listVars, configVars, rateLimitStore, maxRequests, windowMs, log, audioVars, textVars, errVars, gateVars,
                 fileNameVars, worldVars, createVars, ttsVars>>

NextLimiter ==
    \/ \E identifier \in Identifiers : CheckRateLimit(identifier)
    \/ Tick

SpecLimiter == InitLimiter /\ [][NextLimiter]_vars

(***************************************************************************)
(* Properties of the limiter.                                              *)
(***************************************************************************)
CallsOf(identifier) == SelectSeq(log, LAMBDA c : c.identifier = identifier)

\* The calls of an identifier made no later than the resetAt of the window
\* its first call opened (the store starts empty, so the first call opens one).
InFirstWindow(identifier) ==
    LET cs == CallsOf(identifier)
    IN  SelectSeq(cs, LAMBDA c : c.time <= cs[1].time + windowMs)

\* C1: with maxRequests = N >= 1 and no entry at the start, among the calls
\* for an identifier made no later than the resetAt of the window its first
\* call opened, exactly the first N are allowed and every later one is denied.
C1_FirstNAllowed ==
    \A identifier \in Identifiers :
        (maxRequests >= 1 /\ CallsOf(identifier) # <<>>) =>
            \A k \in 1..Len(InFirstWindow(identifier)) :
                InFirstWindow(identifier)[k].result.allowed = (k <= maxRequests)

\* C1 witness: a window that saw more than N calls, the last of them made
\* exactly at resetAt and denied.
C1_Witness ==
    \E identifier \in Identifiers :
        /\ maxRequests >= 1
        /\ windowMs >= 1
        /\ CallsOf(identifier) # <<>>
        /\ LET w == InFirstWindow(identifier)
           IN  /\ Len(w) > maxRequests
               /\ w[Len(w)].time = w[1].time + windowMs
               /\ ~w[Len(w)].result.allowed

\* C2: a call for an identifier with no entry, or with an entry whose
\* resetAt lies before now (whatever its count), is allowed and leaves the
\* entry count = 1, resetAt = now + windowMs.
C2_FreshWindow ==
    \A i \in 1..Len(log) :
        (~log[i].hadEntry \/ log[i].time > log[i].before.resetTime) =>
            /\ log[i].result.allowed
            /\ log[i].after = [count |-> 1, resetTime |-> log[i].time + windowMs]

\* C2 witness: a call that found an exhausted entry past its resetAt.
C2_Witness ==
    \E i \in 1..Len(log) :
        /\ log[i].hadEntry
        /\ maxRequests >= 1
        /\ windowMs >= 1
        /\ log[i].before.count >= maxRequests
        /\ log[i].time > log[i].before.resetTime

\* Allowed calls of an identifier with times in [from, to].
AllowedIn(identifier, from, to) ==
    Cardinality({i \in 1..Len(log) :
        /\ log[i].identifier = identifier
        /\ log[i].result.allowed
        /\ from <= log[i].time
        /\ log[i].time <= to})

\* Allowed calls of an identifier inside the window opened by call i.
AllowedInWindowOf(i) ==
    Cardinality({j \in i..Len(log) :
        /\ log[j].identifier = log[i].identifier
        /\ log[j].result.allowed
        /\ log[j].time <= log[i].after.resetTime})

OpensWindow(i) == ~log[i].hadEntry \/ log[i].time > log[i].before.resetTime

BurstBound ==
    /\ \A identifier \in Identifiers : \A from \in 0..MaxTime : \A len \in 0..windowMs :
           AllowedIn(identifier, from, from + len) <= 2 * maxRequests
    /\ \A i \in 1..Len(log) :
           OpensWindow(i) => AllowedInWindowOf(i) <= maxRequests

\* C3 as stated: for any constant maxRequests and windowMs, the allowed calls
\* of one identifier inside any interval of length at most windowMs number at
\* most 2 * maxRequests, and at most maxRequests inside a single window.
C3_BurstBoundAnyBudget == BurstBound

\* C3 amended: the same bound for every maxRequests >= 1.
C3_BurstBoundPositiveBudget == maxRequests >= 1 => BurstBound

\* C3 witness: an interval no longer than windowMs that straddles two windows
\* and holds more than maxRequests allowed calls.
C3_Witness ==
    /\ maxRequests >= 1
    /\ \E identifier \in Identifiers : \E from \in 0..MaxTime :
           AllowedIn(identifier, from, from + windowMs) > maxRequests

(***************************************************************************)
(* security.ts:54-124  AUDIO_MAGIC_NUMBERS, validateAudioFile              *)
(* A file is the sequence of its bytes (0..255).                           *)
(***************************************************************************)
\* security.ts:56-66  the signatures the code compares against
MagicWav == <<82, 73, 70, 70>>        \* 0x52 0x49 0x46 0x46  "RIFF"
MagicMp3 == <<255, 251>>              \* 0xFF 0xFB
MagicMp3Alt1 == <<255, 250>>          \* 0xFF 0xFA
MagicMp3Alt2 == <<73, 68, 51>>        \* 0x49 0x44 0x33  "ID3"
MagicOgg == <<79, 103, 103, 83>>      \* 0x4F 0x67 0x67 0x53  "OggS"
MagicFlac == <<102, 76, 97, 67>>      \* 0x66 0x4C 0x61 0x43  "fLaC"
Ftyp == <<102, 116, 121, 112>>        \* the bytes of the string 'ftyp'

Min(a, b) == IF a <= b THEN a ELSE b

\* Buffer.subarray(start, end): the bytes at offsets start..end-1, the range
\* clamped to the buffer.
Subarray(buffer, start, end) ==
    SubSeq(buffer, Min(start, Len(buffer)) + 1, Min(end, Len(buffer)))

\* security.ts:80  `buffer.length < 8`
MinAudioBytes == 8
TooSmallUnderFour(buffer) == Len(buffer) < 4
TooSmall(buffer) == Len(buffer) < MinAudioBytes

\* security.ts:85
IsWav(buffer) == Subarray(buffer, 0, 4) = MagicWav

\* security.ts:90-92
IsMp3SyncFirstOnly(buffer) == Subarray(buffer, 0, 2) = MagicMp3
IsMp3Sync(buffer) ==
    \/ Subarray(buffer, 0, 2) = MagicMp3
    \/ Subarray(buffer, 0, 2) = MagicMp3Alt1

\* security.ts:97
IsId3(buffer) == Subarray(buffer, 0, 3) = MagicMp3Alt2

\* security.ts:102
IsOgg(buffer) == Subarray(buffer, 0, 4) = MagicOgg

\* security.ts:107
IsFlac(buffer) == Subarray(buffer, 0, 4) = MagicFlac

\* security.ts:112  `buffer.length >= 8 && buffer.subarray(4, 8).toString() === 'ftyp'`
IsM4aThreeBytes(buffer) ==
    Len(buffer) >= 8 /\ Subarray(buffer, 4, 7) = Subarray(Ftyp, 0, 3)
IsM4a(buffer) == Len(buffer) >= 8 /\ Subarray(buffer, 4, 8) = Ftyp

\* security.ts:72-124  validateAudioFile on a file that reads as `buffer`,
\* or whose read throws (readable = FALSE).
validateAudioFile(readable, buffer) ==
    IF ~readable
    THEN [isValid |-> FALSE, error |-> "Failed to validate file"]
    ELSE IF TooSmall(buffer)
    THEN [isValid |-> FALSE, error |-> "File too small to be a valid audio file"]
    ELSE IF IsWav(buffer) THEN [isValid |-> TRUE, detectedFormat |-> "wav"]
    ELSE IF IsMp3Sync(buffer) THEN [isValid |-> TRUE, detectedFormat |-> "mp3"]
    ELSE IF IsId3(buffer) THEN [isValid |-> TRUE, detectedFormat |-> "mp3"]
    ELSE IF IsOgg(buffer) THEN [isValid |-> TRUE, detectedFormat |-> "ogg"]
    ELSE IF IsFlac(buffer) THEN [isValid |-> TRUE, detectedFormat |-> "flac"]
    ELSE IF IsM4a(buffer) THEN [isValid |-> TRUE, detectedFormat |-> "m4a"]
    ELSE [isValid |-> FALSE,
          error |-> "File does not appear to be a valid audio format"]

(***************************************************************************)
(* The validator on its own: any upload of the bounded family below, with  *)
(* any declared content type, readable or not, is validated once.          *)
(***************************************************************************)
\* Bytes 0..3 of an upload: each signature, each signature with one byte
\* changed, the size field of an MP4 box, zeros, plain text.
Heads ==
    { MagicWav, <<82, 73, 70, 88>>,
      MagicMp3 \o <<144, 0>>, MagicMp3Alt1 \o <<144, 0>>, <<255, 240, 144, 0>>,
      MagicMp3Alt2 \o <<4>>, <<73, 68, 50, 4>>,
      MagicOgg, <<79, 103, 103, 115>>,
      MagicFlac, <<102, 76, 97, 88>>,
      <<0, 0, 0, 32>>, <<0, 0, 0, 0>>, <<72, 101, 108, 108>> }

\* Bytes 4..7 of an upload: 'ftyp', 'ftyx', 'WAVE', zeros.
Mids == { Ftyp, <<102, 116, 121, 120>>, <<87, 65, 86, 69>>, <<0, 0, 0, 0>> }

Zeros(n) == [i \in 1..n |-> 0]

UploadFiles ==
    { SubSeq(h \o m \o Zeros(MaxFileLen), 1, n) :
        h \in Heads, m \in Mids, n \in 0..MaxFileLen }

\* create-model route: audioFile.type, which parseFormData only requires to
\* start with 'audio/'.
DeclaredTypes == {"audio/wav", "audio/mpeg", "audio/ogg"}

LimiterIdle ==
    /\ rateLimitStore = <<>>
    /\ now = 0
    /\ maxRequests = 0
    /\ windowMs = 0
    /\ log = <<>>

InitAudio ==
    /\ ListIdle
    /\ ConfigIdle
    /\ LimiterIdle
    /\ upload \in [bytes : UploadFiles, readable : BOOLEAN, type : DeclaredTypes]
    /\ audioResult = NotRun
    /\ TextIdle
    /\ ErrIdle
    /\ GateIdle
    /\ FileNameIdle
    /\ HandlersIdle

ValidateAudioFile ==
    /\ audioResult = NotRun
    /\ audioResult' = validateAudioFile(upload.readable, upload.bytes)
    /\ UNCHANGED <<listVars, configVars, upload, limiterVars, textVars, errVars, gateVars,
                 fileNameVars, worldVars, createVars, ttsVars>>

NextAudio == ValidateAudioFile

SpecAudio == InitAudio /\ [][NextAudio]_vars

(***************************************************************************)
(* Properties of the validator.  The signatures are restated here as a     *)
(* table in the documented priority order, apart from the code's if-chain. *)
(***************************************************************************)
KnownSignatures ==
    << [format |-> "wav", offset |-> 0, bytes |-> <<82, 73, 70, 70>>],
       [format |-> "mp3", offset |-> 0, bytes |-> <<255, 251>>],
       [format |-> "mp3", offset |-> 0, bytes |-> <<255, 250>>],
       [format |-> "mp3", offset |-> 0, bytes |-> <<73, 68, 51>>],
       [format |-> "ogg", offset |-> 0, bytes |-> <<79, 103, 103, 83>>],
       [format |-> "flac", offset |-> 0, bytes |-> <<102, 76, 97, 67>>],
       [format |-> "m4a", offset |-> 4, bytes |-> <<102, 116, 121, 112>>] >>

HasSignature(file, sig) ==
    /\ Len(file) >= sig.offset + Len(sig.bytes)
    /\ \A i \in 1..Len(sig.bytes) : file[sig.offset + i] = sig.bytes[i]

MatchingSignatures(file) ==
    {i \in 1..Len(KnownSignatures) : HasSignature(file, KnownSignatures[i])}

FirstMatchFormat(file) ==
    LET first == CHOOSE i \in MatchingSignatures(file) :
                     \A j \in MatchingSignatures(file) : i <= j
    IN  KnownSignatures[first].format

Validated == audioResult # NotRun

\* C6: every file shorter than 8 bytes, whatever its bytes (a signature at
\* its start included), is reported isValid = false.
C6_ShortFilesInvalid ==
    (Validated /\ Len(upload.bytes) < 8) => ~audioResult.isValid

\* C6 witness: a readable 7-byte file that starts with a signature was
\* validated.
C6_Witness ==
    /\ Validated
    /\ upload.readable
    /\ Len(upload.bytes) = 7
    /\ MatchingSignatures(upload.bytes) # {}
    /\ ~audioResult.isValid

\* C7 as stated: every file whose first bytes match a known signature is
\* reported isValid = true with the format of the first matching signature
\* in priority order, whatever content type was declared.
C7_SignatureAccepted ==
    (Validated /\ upload.readable /\ MatchingSignatures(upload.bytes) # {}) =>
        audioResult =
            [isValid |-> TRUE, detectedFormat |-> FirstMatchFormat(upload.bytes)]

\* C7 amended: the same for every file that can be read and holds at least
\* 8 bytes.
C7_SignatureAcceptedFromEightBytes ==
    (/\ Validated
     /\ upload.readable
     /\ Len(upload.bytes) >= 8
     /\ MatchingSignatures(upload.bytes) # {}) =>
        audioResult =
            [isValid |-> TRUE, detectedFormat |-> FirstMatchFormat(upload.bytes)]

\* C7 witness: a file declared audio/mpeg that carries both RIFF at offset 0
\* and 'ftyp' at offset 4 was validated and reported as wav.
C7_Witness ==
    /\ Validated
    /\ upload.readable
    /\ upload.type = "audio/mpeg"
    /\ Cardinality(MatchingSignatures(upload.bytes)) = 2
    /\ audioResult = [isValid |-> TRUE, detectedFormat |-> "wav"]

\* C8: every byte sequence that matches none of the six signatures is
\* reported isValid = false, with an error and without a detectedFormat.
C8_NoSignatureInvalid ==
    (Validated /\ MatchingSignatures(upload.bytes) = {}) =>
        /\ ~audioResult.isValid
        /\ "error" \in DOMAIN audioResult
        /\ "detectedFormat" \notin DOMAIN audioResult

\* C8 witness: a readable file of at least 8 bytes that matches no signature
\* was validated and rejected.
C8_Witness ==
    /\ Validated
    /\ upload.readable
    /\ Len(upload.bytes) >= 8
    /\ MatchingSignatures(upload.bytes) = {}
    /\ ~audioResult.isValid

(***************************************************************************)
(* Strings: a string is the sequence of its characters.                    *)
(***************************************************************************)
UpperLetters == <<"A", "B", "C", "D", "E", "F", "G", "H", "I", "J", "K", "L", "M", "N", "O", "P", "Q", "R", "S", "T", "U", "V", "W", "X", "Y", "Z">>
LowerLetters == <<"a", "b", "c", "d", "e", "f", "g", "h", "i", "j", "k", "l", "m", "n", "o", "p", "q", "r", "s", "t", "u", "v", "w", "x", "y", "z">>
Digits == <<"0", "1", "2", "3", "4", "5", "6", "7", "8", "9">>

Range(f) == {f[i] : i \in DOMAIN f}

\* the characters a regular expression's \w matches
WordChars == Range(UpperLetters) \cup Range(LowerLetters) \cup Range(Digits) \cup {"_"}
\* the characters \s matches, among those the inputs are made of
SpaceChars == {" ", "\t", "\n", "\r"}
\* the characters [a-f0-9] matches under the i flag
HexChars == Range(Digits) \cup {"a", "b", "c", "d", "e", "f", "A", "B", "C", "D", "E", "F"}

\* the i flag: letters compare by their lower-case form
ToLower(c) ==
    IF c \in Range(UpperLetters)
    THEN LowerLetters[CHOOSE i \in DOMAIN UpperLetters : UpperLetters[i] = c]
    ELSE c

\* the literal `lit` (lower case) stands in s at position i, case ignored
MatchesAt(s, i, lit) ==
    /\ i + Len(lit) - 1 <= Len(s)
    /\ \A k \in 1..Len(lit) : ToLower(s[i + k - 1]) = lit[k]

\* the length of the longest run of characters of `class` in s from position i
RunLength(s, i, class) ==
    LET lens == {n \in 0..(Len(s) - i + 1) : \A k \in 0..(n - 1) : s[i + k] \in class}
    IN  CHOOSE n \in lens : \A m \in lens : m <= n

\* String.prototype.trim
RECURSIVE TrimStart(_)
TrimStart(s) ==
    IF s # <<>> /\ Head(s) \in SpaceChars THEN TrimStart(Tail(s)) ELSE s

RECURSIVE TrimEnd(_)
TrimEnd(s) ==
    IF s # <<>> /\ s[Len(s)] \in SpaceChars
    THEN TrimEnd(SubSeq(s, 1, Len(s) - 1)) ELSE s

Trim(s) == TrimEnd(TrimStart(s))

\* String.prototype.substring(0, n)
Substring0(s, n) == SubSeq(s, 1, Min(n, Len(s)))

(***************************************************************************)
(* security.ts:28-37  sanitizeTextInput                                    *)
(***************************************************************************)
ScriptOpen == <<"<", "s", "c", "r", "i", "p", "t">>
ScriptClose == <<"<", "/", "s", "c", "r", "i", "p", "t", ">">>
JavascriptScheme == <<"j", "a", "v", "a", "s", "c", "r", "i", "p", "t", ":">>
On == <<"o", "n">>

\* security.ts:33  /<script\b[^<]*(?:(?!<\/script>)<[^<]*)*<\/script>/gi at
\* position i: '<script', a word boundary, then everything up to and
\* including the first '</script>' that follows; 0 when there is no match.
ScriptMatchLength(s, i) ==
    IF /\ MatchesAt(s, i, ScriptOpen)
       /\ (i + 7 > Len(s) \/ s[i + 7] \notin WordChars)
    THEN LET closes == {j \in (i + 7)..Len(s) : MatchesAt(s, j, ScriptClose)}
         IN  IF closes = {} THEN 0
             ELSE (CHOOSE j \in closes : \A k \in closes : j <= k) + 9 - i
    ELSE 0

\* security.ts:34  /javascript:/gi at position i
JavascriptMatchLength(s, i) ==
    IF MatchesAt(s, i, JavascriptScheme) THEN Len(JavascriptScheme) ELSE 0

\* security.ts:35  /on\w+\s*=/gi at position i
HandlerMatchLength(s, i) ==
    IF MatchesAt(s, i, On)
    THEN LET w == RunLength(s, i + 2, WordChars)
             sp == RunLength(s, i + 2 + w, SpaceChars)
             eq == i + 2 + w + sp
         IN  IF w >= 1 /\ eq <= Len(s) /\ s[eq] = "=" THEN eq - i + 1 ELSE 0
    ELSE 0

\* .replace(regex, '') with the g flag: scan left to right from position i,
\* keep everything before the next match, drop the match, go on after it.
FirstOf(positions) == CHOOSE j \in positions : \A k \in positions : j <= k

RECURSIVE RemoveScriptsFrom(_, _)
RemoveScriptsFrom(s, i) ==
    LET hits == {j \in i..Len(s) : ScriptMatchLength(s, j) > 0}
    IN  IF hits = {} THEN SubSeq(s, i, Len(s))
        ELSE SubSeq(s, i, FirstOf(hits) - 1)
             \o RemoveScriptsFrom(s, FirstOf(hits) + ScriptMatchLength(s, FirstOf(hits)))

RECURSIVE RemoveJavascriptFrom(_, _)
RemoveJavascriptFrom(s, i) ==
    LET hits == {j \in i..Len(s) : JavascriptMatchLength(s, j) > 0}
    IN  IF hits = {} THEN SubSeq(s, i, Len(s))
        ELSE SubSeq(s, i, FirstOf(hits) - 1)
             \o RemoveJavascriptFrom(s, FirstOf(hits) + JavascriptMatchLength(s, FirstOf(hits)))

RECURSIVE RemoveHandlersFrom(_, _)
RemoveHandlersFrom(s, i) ==
    LET hits == {j \in i..Len(s) : HandlerMatchLength(s, j) > 0}
    IN  IF hits = {} THEN SubSeq(s, i, Len(s))
        ELSE SubSeq(s, i, FirstOf(hits) - 1)
             \o RemoveHandlersFrom(s, FirstOf(hits) + HandlerMatchLength(s, FirstOf(hits)))

\* security.ts:36  .substring(0, 5000)
MaxTextLength == 5000

\* security.ts:31-36 (inputs are strings, so line 29 does not return)
sanitizeTextInput(input) ==
    Substring0(
        RemoveHandlersFrom(
            RemoveJavascriptFrom(
                RemoveScriptsFrom(Trim(input), 1), 1), 1),
        MaxTextLength)

(***************************************************************************)
(* The text sanitizer on its own: applied to an input, then to its own     *)
(* output.  Inputs are concatenations of the fragments below.              *)
(***************************************************************************)
TextFragments ==
    { <<"j", "a", "v", "a", "s", "c", "r", "i", "p", "t", ":">>,
      <<"j", "a">>,
      <<"v", "a", "s", "c", "r", "i", "p", "t", ":">>,
      <<"J", "a", "v", "a", "S", "c", "r", "i", "p", "t", ":">>,
      <<"o", "n">>,
      <<"c", "l", "i", "c", "k">>,
      <<"=">>,
      <<" ">>,
      <<"x">>,
      <<"<", "s", "c", "r", "i", "p", "t", ">">>,
      <<"<", "/", "s", "c", "r", "i", "p", "t", ">">>,
      <<"<", "s", "c", "r">>,
      <<"i", "p", "t", ">">> }

RECURSIVE Concat(_)
Concat(parts) == IF parts = <<>> THEN <<>> ELSE Head(parts) \o Concat(Tail(parts))

TextInputs ==
    UNION { {Concat(parts) : parts \in [1..n -> TextFragments]} : n \in 0..MaxTextChunks }

InitText ==
    /\ ListIdle
    /\ ConfigIdle
    /\ LimiterIdle
    /\ AudioIdle
    /\ textIn \in TextInputs
    /\ textOnce = <<>>
    /\ textTwice = <<>>
    /\ textStage = 0
    /\ ErrIdle
    /\ GateIdle
    /\ FileNameIdle
    /\ HandlersIdle

SanitizeOnce ==
    /\ textStage = 0
    /\ textOnce' = sanitizeTextInput(textIn)
    /\ textStage' = 1
    /\ UNCHANGED <<listVars, configVars, textIn, textTwice, limiterVars, audioVars, errVars, gateVars,
                 fileNameVars, worldVars, createVars, ttsVars>>

SanitizeTwice ==
    /\ textStage = 1
    /\ textTwice' = sanitizeTextInput(textOnce)
    /\ textStage' = 2
    /\ UNCHANGED <<listVars, configVars, textIn, textOnce, limiterVars, audioVars, errVars, gateVars,
                 fileNameVars, worldVars, createVars, ttsVars>>

NextText == SanitizeOnce \/ SanitizeTwice

SpecText == InitText /\ [][NextText]_vars

\* C9: sanitizeTextInput(sanitizeTextInput(x)) = sanitizeTextInput(x) for
\* every input string x.
C9_SanitizeIdempotent == textStage = 2 => textTwice = textOnce

(***************************************************************************)
(* security.ts:6-23  sanitizeErrorMessage                                  *)
(***************************************************************************)
FilePathMark == <<"[", "F", "I", "L", "E", "_", "P", "A", "T", "H", "]">>
TokenMark == <<"[", "T", "O", "K", "E", "N", "]">>
UnknownErrorText == <<"A", "n", " ", "u", "n", "k", "n", "o", "w", "n", " ", "e", "r", "r", "o", "r", " ", "o", "c", "c", "u", "r", "r", "e", "d">>

\* the length of the longest run of non-whitespace characters in s from i
NonSpaceRunLength(s, i) ==
    LET lens == {n \in 0..(Len(s) - i + 1) :
                    \A k \in 0..(n - 1) : s[i + k] \notin SpaceChars}
    IN  CHOOSE n \in lens : \A m \in lens : m <= n

\* security.ts:12  /\/[^\s]*\/[^\s]*/g at position i: a slash followed, within
\* the same whitespace-free run, by another slash; the match runs to the end
\* of that run.  0 when there is no match.
PathMatchLength(s, i) ==
    IF s[i] = "/"
    THEN LET run == NonSpaceRunLength(s, i + 1)
         IN  IF \E k \in 1..run : s[i + k] = "/" THEN 1 + run ELSE 0
    ELSE 0

RECURSIVE ReplacePathsFrom(_, _)
ReplacePathsFrom(s, i) ==
    LET hits == {j \in i..Len(s) : PathMatchLength(s, j) > 0}
    IN  IF hits = {} THEN SubSeq(s, i, Len(s))
        ELSE SubSeq(s, i, FirstOf(hits) - 1) \o FilePathMark
             \o ReplacePathsFrom(s, FirstOf(hits) + PathMatchLength(s, FirstOf(hits)))

\* the same replace without the g flag: only the first match is replaced
ReplaceFirstPathFrom(s, i) ==
    LET hits == {j \in i..Len(s) : PathMatchLength(s, j) > 0}
    IN  IF hits = {} THEN SubSeq(s, i, Len(s))
        ELSE SubSeq(s, i, FirstOf(hits) - 1) \o FilePathMark
             \o SubSeq(s, FirstOf(hits) + PathMatchLength(s, FirstOf(hits)), Len(s))

\* security.ts:12
ReplaceFirstPath(s) == ReplaceFirstPathFrom(s, 1)
ReplacePaths(s) == ReplacePathsFrom(s, 1)

\* security.ts:15  message.split('\n')[0]
FirstLine(s) ==
    LET breaks == {i \in 1..Len(s) : s[i] = "\n"}
    IN  IF breaks = {} THEN s
        ELSE SubSeq(s, 1, (CHOOSE i \in breaks : \A j \in breaks : i <= j) - 1)

\* security.ts:18  /[a-f0-9]{32,}/gi
MinTokenLength == 32

TokenMatchLength(s, i) ==
    IF RunLength(s, i, HexChars) >= MinTokenLength
    THEN RunLength(s, i, HexChars) ELSE 0

RECURSIVE ReplaceTokensFrom(_, _)
ReplaceTokensFrom(s, i) ==
    LET hits == {j \in i..Len(s) : TokenMatchLength(s, j) > 0}
    IN  IF hits = {} THEN SubSeq(s, i, Len(s))
        ELSE SubSeq(s, i, FirstOf(hits) - 1) \o TokenMark
             \o ReplaceTokensFrom(s, FirstOf(hits) + TokenMatchLength(s, FirstOf(hits)))

ReplaceTokens(s) == ReplaceTokensFrom(s, 1)

\* security.ts:6-23
sanitizeErrorMessage(error) ==
    IF error.isError
    THEN ReplaceTokens(FirstLine(ReplacePaths(error.message)))
    ELSE UnknownErrorText

(***************************************************************************)
(* The error sanitizer on its own: applied once to an Error with any       *)
(* message made of the fragments below, or to a thrown value that is not   *)
(* an Error.                                                               *)
(***************************************************************************)
Hex32 == <<"0", "1", "2", "3", "4", "5", "6", "7", "8", "9", "a", "b", "c", "d", "e", "f", "A", "B", "C", "D", "E", "F", "0", "1", "2", "3", "4", "5", "6", "7", "8", "9">>

ErrorFragments ==
    { <<"/", "s", "r", "v", "/", "a", "p", "p">>,
      <<"/">>,
      <<" ">>,
      <<"\n">>,
      <<"a">>,
      <<"g">>,
      Hex32 }

ErrorMessages ==
    UNION { {Concat(parts) : parts \in [1..n -> ErrorFragments]} : n \in 0..MaxErrorChunks }

InitError ==
    /\ ListIdle
    /\ ConfigIdle
    /\ LimiterIdle
    /\ AudioIdle
    /\ TextIdle
    /\ errIn \in [isError : BOOLEAN, message : ErrorMessages]
    /\ errOut = <<>>
    /\ errStage = 0
    /\ GateIdle
    /\ FileNameIdle
    /\ HandlersIdle

SanitizeErrorMessage ==
    /\ errStage = 0
    /\ errOut' = sanitizeErrorMessage(errIn)
    /\ errStage' = 1
    /\ UNCHANGED <<listVars, configVars, errIn, limiterVars, audioVars, textVars, gateVars,
                 fileNameVars, worldVars, createVars, ttsVars>>

NextError == SanitizeErrorMessage

SpecError == InitError /\ [][NextError]_vars

Contains(s, part) ==
    \E i \in 1..(Len(s) - Len(part) + 1) : SubSeq(s, i, i + Len(part) - 1) = part

HasPathShape(s) ==
    \E i \in 1..Len(s) : \E j \in (i + 1)..Len(s) :
        /\ s[i] = "/"
        /\ s[j] = "/"
        /\ \A k \in (i + 1)..(j - 1) : s[k] \notin SpaceChars

HasLongHexRun(s) ==
    \E i \in 1..(Len(s) - 31) : \A k \in 0..31 : s[i + k] \in HexChars

\* C10: for an Error the returned string is a single line, holds no slash,
\* non-whitespace characters, slash, and no run of 32 or more hexadecimal
\* characters; for any other value it is 'An unknown error occurred'.
C10_ErrorMessageClean ==
    errStage = 1 =>
        IF errIn.isError
        THEN /\ \A i \in 1..Len(errOut) : errOut[i] # "\n"
             /\ ~HasPathShape(errOut)
             /\ ~HasLongHexRun(errOut)
        ELSE errOut = UnknownErrorText

\* C10 witness: an Error whose message holds a path, a second line and a
\* run of at least 32 hexadecimal characters went through the sanitizer, and
\* both redaction markers are in what it returned.
C10_Witness ==
    /\ errStage = 1
    /\ errIn.isError
    /\ HasPathShape(FirstLine(errIn.message))
    /\ HasLongHexRun(FirstLine(errIn.message))
    /\ FirstLine(errIn.message) # errIn.message
    /\ Contains(errOut, FilePathMark)
    /\ Contains(errOut, TokenMark)

(***************************************************************************)
(* The rate-limit step of the two POST handlers.                           *)
(*   tts/route.ts:70-83, create-model route (part_004:86-99)               *)
(* Both handlers run it synchronously before their first await, on the     *)
(* one rateLimitStore of security.ts, keyed by getClientIP(request) alone. *)
(* Nothing after this step reads or writes rateLimitStore.                 *)
(***************************************************************************)
\* tts/route.ts:75  checkRateLimit(clientIP, 10, 60000)
TtsMaxRequests == 10
\* part_004:91  checkRateLimit(clientIP, 5, 60000)
CreateModelMaxRequests == 5
\* tts/route.ts:75, part_004:91
RateWindowMs == 60000

\* the clock moves in half windows, so that a request can arrive exactly at
\* resetTime as well as before and after it
ClockStepMs == RateWindowMs \div 2

\* security.ts:163-176  getClientIP.  forwarded is the x-forwarded-for header
\* split at its commas and trimmed (<<>>: no header), realIP is x-real-ip
\* ("": no header).
getClientIP(headers) ==
    IF headers.forwarded # <<>> THEN headers.forwarded[1]
    ELSE IF headers.realIP # "" THEN headers.realIP
    ELSE "unknown"

RequestHeaders ==
    { [forwarded |-> <<"ip1">>, realIP |-> ""],
      [forwarded |-> <<"ip1", "ip9">>, realIP |-> "ip9"],
      [forwarded |-> <<>>, realIP |-> "ip1"],
      [forwarded |-> <<>>, realIP |-> ""] }

ClientIdentifiers == {getClientIP(h) : h \in RequestHeaders}

\* lib/cors createCorsResponse(body, {status, origin}): the JSON body and the
\* status as given, plus the CORS header set.
CorsHeaders ==
    { "Access-Control-Allow-Origin", "Access-Control-Allow-Methods",
      "Access-Control-Allow-Headers", "Access-Control-Allow-Credentials",
      "Access-Control-Max-Age" }

createCorsResponse(body, status) ==
    [status |-> status, body |-> body, headers |-> CorsHeaders]

\* tts/route.ts:78-82, part_004:94-98
RateLimitResponse ==
    createCorsResponse(
        [success |-> FALSE,
         error |-> "Rate limit exceeded",
         message |-> "Too many requests. Please try again later."],
        429)

\* the handler goes on to parse the request: no response yet
Pending == [pending |-> TRUE]

\* tts/route.ts:70-83 and part_004:86-99 with the endpoint's budget
RateLimitStep(endpoint, budget, headers) ==
    LET clientIP == getClientIP(headers)
        rateLimit == checkRateLimitResult(rateLimitStore, clientIP, budget,
                                          RateWindowMs, now)
        opens == StartsWindow(rateLimitStore, clientIP, now)
        before == IF opens THEN [tts |-> 0, create |-> 0] ELSE admitted[clientIP]
    IN  /\ rateLimitStore' = checkRateLimitStore(rateLimitStore, clientIP, budget,
                                                 RateWindowMs, now)
        /\ admitted' =
               IF rateLimit.allowed
               THEN (clientIP :> [before EXCEPT ![endpoint] = @ + 1]) @@ admitted
               ELSE admitted
        /\ lastRequest' =
               [endpoint |-> endpoint,
                clientIP |-> clientIP,
                time |-> now,
                admittedBefore |-> before,
                rateLimit |-> rateLimit,
                response |-> IF rateLimit.allowed THEN Pending ELSE RateLimitResponse]
        /\ UNCHANGED <<listVars, configVars, now, maxRequests, windowMs, log, audioVars, textVars, errVars,
                       fileNameVars, worldVars, createVars, ttsVars>>

PostTts(headers) == RateLimitStep("tts", TtsMaxRequests, headers)

PostCreateModel(headers) == RateLimitStep("create", CreateModelMaxRequests, headers)

ClockAdvance ==
    /\ now < MaxClockSteps * ClockStepMs
    /\ now' = now + ClockStepMs
    /\ UNCHANGED <<listVars, configVars, rateLimitStore, maxRequests, windowMs, log,
                   audioVars, textVars, errVars, gateVars,
                 fileNameVars, worldVars, createVars, ttsVars>>

Init ==
    /\ ListIdle
    /\ ConfigIdle
    /\ LimiterIdle
    /\ AudioIdle
    /\ TextIdle
    /\ ErrIdle
    /\ admitted = <<>>
    /\ lastRequest = NotRun
    /\ FileNameIdle
    /\ HandlersIdle

Next ==
    \/ \E headers \in RequestHeaders : PostTts(headers)
    \/ \E headers \in RequestHeaders : PostCreateModel(headers)
    \/ ClockAdvance

Spec == Init /\ [][Next]_vars

Requested == lastRequest # NotRun

\* C4: inside one window a create-model request passes the rate-limit step
\* whenever fewer than 5 create-model requests of its identifier were
\* admitted in the window, and a tts request passes whenever fewer than 10
\* tts requests of its identifier were admitted in the window.
C4_DistinctBudgets ==
    Requested =>
        /\ (/\ lastRequest.endpoint = "create"
            /\ lastRequest.admittedBefore.create < 5) => lastRequest.rateLimit.allowed
        /\ (/\ lastRequest.endpoint = "tts"
            /\ lastRequest.admittedBefore.tts < 10) => lastRequest.rateLimit.allowed

\* C5: a request rejected by the rate-limit step gets status 429 and a
\* response that carries the reset time of the current window, which is
\* later than the time of the request.
C5_RejectionCarriesReset ==
    (Requested /\ ~lastRequest.rateLimit.allowed) =>
        /\ lastRequest.response.status = 429
        /\ \/ \E field \in {"resetAt", "resetTime"} :
                  /\ field \in DOMAIN lastRequest.response.body
                  /\ lastRequest.response.body[field] = lastRequest.rateLimit.resetTime
           \/ \E header \in {"Retry-After", "X-RateLimit-Reset"} :
                  header \in lastRequest.response.headers
        /\ lastRequest.rateLimit.resetTime > lastRequest.time

(***************************************************************************)
(* JavaScript values, as far as the code tells them apart: a string is     *)
(* the sequence of its characters, undefined is a missing property.        *)
(***************************************************************************)
Undefined == [type |-> "undefined"]
Str(chars) == [type |-> "string", value |-> chars]
Num(n) == [type |-> "number", value |-> n]

\* what `if (v)`, `!v`, `v && ...` and `v || ...` test
Truthy(v) ==
    CASE v.type = "string" -> v.value # <<>>
      [] v.type = "number" -> v.value # 0
      [] OTHER -> FALSE

(***************************************************************************)
(* security.ts:42-49  sanitizeFileName                                     *)
(***************************************************************************)
\* security.ts:46  the characters outside the class [^a-zA-Z0-9._-]
SafeFileNameChars ==
    Range(UpperLetters) \cup Range(LowerLetters) \cup Range(Digits) \cup {".", "_", "-"}

\* security.ts:46  .replace(/[^a-zA-Z0-9._-]/g, '_')
ReplaceUnsafeChars(s) ==
    [i \in 1..Len(s) |-> IF s[i] \in SafeFileNameChars THEN s[i] ELSE "_"]

\* security.ts:47  .replace(/^\.+/, '')
StripFirstDot(s) ==
    IF s # <<>> /\ s[1] = "." THEN SubSeq(s, 2, Len(s)) ELSE s
StripLeadingDots(s) ==
    LET rest == {i \in 1..Len(s) : s[i] # "."}
    IN  IF rest = {} THEN <<>>
        ELSE SubSeq(s, CHOOSE i \in rest : \A k \in 1..(i - 1) : s[k] = ".", Len(s))

\* security.ts:48  .substring(0, 255)
MaxFileNameLength == 255

Unknown == <<"u", "n", "k", "n", "o", "w", "n">>

sanitizeFileName(fileName) ==
    IF fileName.type # "string" THEN Unknown
    ELSE Substring0(StripLeadingDots(ReplaceUnsafeChars(fileName.value)),
                    MaxFileNameLength)

(***************************************************************************)
(* The file-name sanitizer on its own: applied to a value, then to its own *)
(* output.  String inputs are concatenations of the fragments below; the   *)
(* two long fragments carry an input past 255 characters.                  *)
(***************************************************************************)
MaxNameChunks == 3      \* file names are made of 0..MaxNameChunks fragments
LongFragmentLength == 128

FileNameFragments ==
    { <<".">>, <<".", ".">>, <<"/">>, <<"a">>, <<"Z", "9", "-", "_">>, <<" ">>, <<"$">>,
      [i \in 1..LongFragmentLength |-> "b"],
      [i \in 1..LongFragmentLength |-> IF i % 2 = 0 THEN "/" ELSE "."] }

FileNameInputs ==
    {Str(Concat(parts)) :
        parts \in UNION {[1..n -> FileNameFragments] : n \in 0..MaxNameChunks}}
    \cup {Undefined, Num(7)}

InitFileName ==
    /\ ListIdle
    /\ ConfigIdle
    /\ LimiterIdle
    /\ AudioIdle
    /\ TextIdle
    /\ ErrIdle
    /\ GateIdle
    /\ nameIn \in FileNameInputs
    /\ nameOnce = <<>>
    /\ nameTwice = <<>>
    /\ nameStage = 0
    /\ HandlersIdle

SanitizeFileNameOnce ==
    /\ nameStage = 0
    /\ nameOnce' = sanitizeFileName(nameIn)
    /\ nameStage' = 1
    /\ UNCHANGED <<listVars, configVars, nameIn, nameTwice, limiterVars, audioVars, textVars, errVars,
                   gateVars, worldVars, createVars, ttsVars>>

SanitizeFileNameTwice ==
    /\ nameStage = 1
    /\ nameTwice' = sanitizeFileName(Str(nameOnce))
    /\ nameStage' = 2
    /\ UNCHANGED <<listVars, configVars, nameIn, nameOnce, limiterVars, audioVars, textVars, errVars,
                   gateVars, worldVars, createVars, ttsVars>>

NextFileName == SanitizeFileNameOnce \/ SanitizeFileNameTwice

SpecFileName == InitFileName /\ [][NextFileName]_vars

\* C11: for every string input the output of sanitizeFileName holds only
\* characters of [A-Za-z0-9._-], does not begin with a dot, is at most 255
\* characters long, and sanitizeFileName maps it to itself.
C11_FileNameSafe ==
    (nameIn.type = "string" /\ nameStage >= 1) =>
        /\ \A i \in 1..Len(nameOnce) : nameOnce[i] \in SafeFileNameChars
        /\ (nameOnce = <<>> \/ nameOnce[1] # ".")
        /\ Len(nameOnce) <= 255
        /\ (nameStage = 2 => nameTwice = nameOnce)

\* an input that begins with a dot, holds unsafe characters and is longer
\* than 255 characters once its leading dots are gone, sanitized twice
C11_Witness ==
    /\ nameIn.type = "string"
    /\ nameStage = 2
    /\ Len(nameIn.value) > 255
    /\ nameIn.value[1] = "."
    /\ \E i \in 1..Len(nameIn.value) : nameIn.value[i] \notin SafeFileNameChars
    /\ Len(StripLeadingDots(ReplaceUnsafeChars(nameIn.value))) > 255
    /\ Len(nameOnce) = 255
    /\ nameOnce # SubSeq(nameIn.value, 1, 255)

(***************************************************************************)
(* What the two POST handlers share: thrown errors, the model store of     *)
(* lib/db.ts, the provider client of lib/fish-audio.ts, the file system.   *)
(***************************************************************************)
\* new Error(message)
Error(message) == [isError |-> TRUE, message |-> message]

\* String.prototype.startsWith
StartsWith(s, prefix) ==
    Len(prefix) <= Len(s) /\ SubSeq(s, 1, Len(prefix)) = prefix

\* db.ts:88-92, 160-164  `result || null`
Null == [type |-> "null"]

\* db.ts:124-126  generateId: a string no earlier row has; the model derives
\* it from the number of the request that inserts
generateId(n) == <<"m", Digits[n + 1]>>

\* db.ts:88-92  SELECT * FROM models WHERE id = ?
getModelById(rows, id) ==
    LET hits == {i \in 1..Len(rows) : rows[i].id = id}
    IN  IF hits = {} THEN Null ELSE rows[FirstOf(hits)]

\* db.ts:160-164  SELECT * FROM models WHERE title = ?
getModelByNameInId(rows, name) == getModelById(rows, name)
getModelByName(rows, name) ==
    LET hits == {i \in 1..Len(rows) : rows[i].title = name}
    IN  IF hits = {} THEN Null ELSE rows[FirstOf(hits)]

\* db.ts:52  fish_model_id TEXT UNIQUE NOT NULL: the insert of db.ts:176 throws
UniqueConstraintText == <<"U", "N", "I", "Q", "U", "E", " ", "c", "o", "n", "s", "t", "r", "a", "i", "n", "t", " ", "f", "a", "i", "l", "e", "d", ":", " ", "m", "o", "d", "e", "l", "s", ".", "f", "i", "s", "h", "_", "m", "o", "d", "e", "l", "_", "i", "d">>
ViolatesUniqueNever(rows, fishAudioId) == FALSE
ViolatesUnique(rows, fishAudioId) ==
    \E i \in 1..Len(rows) : rows[i].fish_model_id = fishAudioId

\* db.ts:169-186  createModel: the row it inserts
NewRow(n, fishAudioId, name) ==
    [id |-> generateId(n), fish_model_id |-> fishAudioId, title |-> name]

\* db.ts:47-59, 176  the constraints of the table an insert can violate:
\* the UNIQUE of fish_model_id; the title has none
InsertRejectedOnTitle(rows, row) ==
    \/ ViolatesUnique(rows, row.fish_model_id)
    \/ \E i \in 1..Len(rows) : rows[i].title = row.title
InsertRejected(rows, row) == ViolatesUnique(rows, row.fish_model_id)

\* an insert that fails for a reason of the database file itself
DiskErrorText == <<"d", "i", "s", "k", " ", "I", "/", "O", " ", "e", "r", "r", "o", "r">>

\* fs.readFile / fs.writeFile rejecting
ReadErrorText == <<"E", "I", "O", ":", " ", "i", "/", "o", " ", "e", "r", "r", "o", "r", ",", " ", "r", "e", "a", "d">>
WriteErrorText == <<"E", "N", "O", "S", "P", "C", ":", " ", "n", "o", " ", "s", "p", "a", "c", "e", " ", "l", "e", "f", "t", " ", "o", "n", " ", "d", "e", "v", "i", "c", "e", ",", " ", "w", "r", "i", "t", "e">>

\* fish-audio.ts:102-116  handleResponse on a non-2xx response throws the
\* provider's message, its raw body, or 'HTTP <status>: <statusText>';
\* fetch itself throws on a transport error.
ProviderErrorTexts ==
    { <<"H", "T", "T", "P", " ", "5", "0", "0", ":", " ", "I", "n", "t", "e", "r", "n", "a", "l", " ", "S", "e", "r", "v", "e", "r", " ", "E", "r", "r", "o", "r">>,
      <<"I", "n", "v", "a", "l", "i", "d", " ", "J", "S", "O", "N", " ", "i", "n", " ", "r", "e", "q", "u", "e", "s", "t", " ", "b", "o", "d", "y">>,
      <<"f", "e", "t", "c", "h", " ", "f", "a", "i", "l", "e", "d">> }

\* the remote identifiers the provider hands out
RemoteIds == { <<"f", "m", "1">>, <<"f", "m", "2">> }

\* fish-audio.ts:131-169  createVoiceModel: a 2xx response whose JSON holds
\* _id (a string, possibly empty, or nothing), or a failure
CloneOutcomes ==
    {[ok |-> TRUE, id |-> Str(id), text |-> <<>>] : id \in RemoteIds \cup {<<>>}}
    \cup {[ok |-> TRUE, id |-> Undefined, text |-> <<>>]}
    \cup {[ok |-> FALSE, id |-> Undefined, text |-> t] : t \in ProviderErrorTexts}

\* fish-audio.ts:389, 408  the wrapper's catch
FishAudioApiErrorPrefix == <<"F", "i", "s", "h", " ", "A", "u", "d", "i", "o", " ", "A", "P", "I", " ", "e", "r", "r", "o", "r", ":", " ">>
WrapProviderError(text) == Error(FishAudioApiErrorPrefix \o text)

(***************************************************************************)
(* create-model route (part_004): the request and its form                 *)
(***************************************************************************)
\* part_002:4-9, 63-65  MAX_FILE_SIZE_MB defaults to 10
DefaultMaxFileSizeMb == 10
getMaxFileSizeBytes == DefaultMaxFileSizeMb * 1024 * 1024

NoFile == [present |-> FALSE]

WavFile == MagicWav \o <<36, 0, 0, 0>> \o <<87, 65, 86, 69>>
TextFile == <<72, 101, 108, 108, 111, 32, 119, 111, 114, 108, 100, 33>>

\* part_004:29  formData.get('audio'): its bytes, its size, its declared type.
\* The one upload over the limit stands for its first bytes only; it is
\* never written.
Uploads ==
    { [present |-> TRUE, bytes |-> WavFile, size |-> Len(WavFile), type |-> <<"a", "u", "d", "i", "o", "/", "w", "a", "v">>],
      [present |-> TRUE, bytes |-> <<82, 73, 70>>, size |-> 3, type |-> <<"a", "u", "d", "i", "o", "/", "w", "a", "v">>],
      [present |-> TRUE, bytes |-> TextFile, size |-> Len(TextFile), type |-> <<"a", "u", "d", "i", "o", "/", "m", "p", "e", "g">>],
      [present |-> TRUE, bytes |-> WavFile, size |-> getMaxFileSizeBytes + 1, type |-> <<"a", "u", "d", "i", "o", "/", "w", "a", "v">>],
      [present |-> TRUE, bytes |-> WavFile, size |-> Len(WavFile), type |-> <<"t", "e", "x", "t", "/", "p", "l", "a", "i", "n">>] }

\* part_004:112  fields.name.length > 100
MaxNameLength == 100

\* part_004:25  formData.get('name')?.toString() || ''
RawNames ==
    { <<>>, <<"a", "m", "y">>, <<" ", "a", "m", "y">>, <<"b", "o", "b">>, [i \in 1..(MaxNameLength + 1) |-> "n"] }

\* part_004:22  a body request.formData() parses into name and audio, or one
\* it rejects
CreateInputs ==
    [wellFormed : {TRUE}, name : RawNames, audio : Uploads \cup {NoFile}]
    \cup {[wellFormed |-> FALSE, name |-> <<>>, audio |-> NoFile]}

FormDataErrorText == <<"F", "a", "i", "l", "e", "d", " ", "t", "o", " ", "p", "a", "r", "s", "e", " ", "b", "o", "d", "y", " ", "a", "s", " ", "F", "o", "r", "m", "D", "a", "t", "a", ".">>
\* part_004:43  (getMaxFileSizeBytes() / (1024 * 1024) prints as 10)
FileSizeErrorText == <<"F", "i", "l", "e", " ", "s", "i", "z", "e", " ", "e", "x", "c", "e", "e", "d", "s", " ", "m", "a", "x", "i", "m", "u", "m", " ", "a", "l", "l", "o", "w", "e", "d", " ", "s", "i", "z", "e", " ", "o", "f", " ", "1", "0", "M", "B">>
\* part_004:48
FileTypeErrorText == <<"F", "i", "l", "e", " ", "i", "s", " ", "n", "o", "t", " ", "a", " ", "v", "a", "l", "i", "d", " ", "a", "u", "d", "i", "o", " ", "f", "o", "r", "m", "a", "t">>
\* part_004:72
ParseErrorPrefix == <<"F", "a", "i", "l", "e", "d", " ", "t", "o", " ", "p", "a", "r", "s", "e", " ", "f", "o", "r", "m", " ", "d", "a", "t", "a", ":", " ">>
\* part_004:177
NoModelIdText == <<"F", "i", "s", "h", " ", "A", "u", "d", "i", "o", " ", "A", "P", "I", " ", "d", "i", "d", " ", "n", "o", "t", " ", "r", "e", "t", "u", "r", "n", " ", "a", " ", "v", "a", "l", "i", "d", " ", "m", "o", "d", "e", "l", " ", "I", "D">>

\* part_004:53  tempFilePath, named here by the number of the request
TempPath(n) == <<"/tmp/upload", n>>

\* every failure body: success false, a short code, a message
FailureWithoutMessage(status, error, message) ==
    createCorsResponse([success |-> FALSE, error |-> error], status)
Failure(status, error, message) ==
    createCorsResponse([success |-> FALSE, error |-> error, message |-> message],
                       status)

FishAudioApiMark == <<"F", "i", "s", "h", " ", "A", "u", "d", "i", "o", " ", "A", "P", "I">>
UniqueConstraintMark == <<"U", "N", "I", "Q", "U", "E", " ", "c", "o", "n", "s", "t", "r", "a", "i", "n", "t">>
MaxFileSizeMark == <<"m", "a", "x", "F", "i", "l", "e", "S", "i", "z", "e">>

\* part_004:206-242  the catch of POST
CreateModelCatch(error) ==
    IF Contains(error.message, FishAudioApiMark)
    THEN Failure(502, "External API error",
                 "Failed to process voice cloning with external service")
    ELSE IF Contains(error.message, UniqueConstraintMark)
    THEN Failure(409, "Model already exists",
                 "A voice model with this name already exists")
    ELSE IF Contains(error.message, MaxFileSizeMark)
    THEN Failure(413, "File too large",
                 "File size exceeds maximum allowed size of 10MB")
    ELSE createCorsResponse(
             [success |-> FALSE,
              error |-> "Internal server error",
              message |-> "Failed to create voice model",
              details |-> sanitizeErrorMessage(error)],
             500)

\* part_004:104-126  the checks on the parsed fields; Pending when all pass
ValidateCreateFields(name, hasAudio) ==
    IF Len(name) < 1
    THEN Failure(400, "Validation failed", "Name is required and must not be empty")
    ELSE IF Len(name) > MaxNameLength
    THEN Failure(400, "Validation failed", "Name must be less than 100 characters")
    ELSE IF ~hasAudio
    THEN Failure(400, "Validation failed", "Audio file is required")
    ELSE Pending

\* part_004:176  !cloneResponse || !cloneResponse.id
MissingOnlyWhenUndefined(id) == id = Undefined
MissingModelId(id) == ~Truthy(id)

(***************************************************************************)
(* create-model route (part_004:85-243): POST, one action per stretch of   *)
(* code between two awaits.  create[r] holds the locals of the request in  *)
(* slot r and the await it is suspended at.                                *)
(***************************************************************************)
MaxServed == 2      \* requests received in one behaviour

Slots == {"r1", "r2"}

IdleSlot ==
    [pc |-> "idle", n |-> 0, clientIP |-> "", input |-> NotRun, name |-> <<>>,
     wroteTemp |-> FALSE, audioValidation |-> NotRun, cloneOutcome |-> NotRun,
     ioFailed |-> "", providerCalls |-> 0, inserted |-> 0, unlinks |-> 0,
     unlinkFailed |-> FALSE,
     modelsAtStart |-> <<>>, response |-> Pending]

InFlight(r) == create[r].pc \notin {"idle", "done"}

KeepWaiting(slot, response) == slot
Respond(slot, response) == [slot EXCEPT !.pc = "done", !.response = response]

\* part_004:86-101  rate limiting, then `await parseFormData(request)`
CreateStart(r, headers, input) ==
    LET clientIP == getClientIP(headers)
        rateLimit == checkRateLimitResult(rateLimitStore, clientIP,
                                          CreateModelMaxRequests, RateWindowMs, now)
        fresh == [IdleSlot EXCEPT !.n = served + 1, !.clientIP = clientIP,
                                  !.input = input, !.modelsAtStart = models]
    IN  /\ ~InFlight(r)
        /\ served < MaxServed
        /\ served' = served + 1
        /\ rateLimitStore' = checkRateLimitStore(rateLimitStore, clientIP,
                                 CreateModelMaxRequests, RateWindowMs, now)
        /\ create' = [create EXCEPT ![r] =
               IF rateLimit.allowed THEN [fresh EXCEPT !.pc = "parse"]
               ELSE Respond(fresh, RateLimitResponse)]
        /\ UNCHANGED <<listVars, configVars, now, maxRequests, windowMs, log, audioVars, textVars, errVars,
                       gateVars, fileNameVars, models, files, ttsVars>>

\* part_004:17-74  parseFormData throwing `message`, caught at part_004:206
ParseFailure(slot, message) ==
    Respond(slot, CreateModelCatch(Error(ParseErrorPrefix \o message)))

\* part_004:22-73 and 104-129: the form is parsed, the upload is written to
\* its temporary file (writeOk: fs.writeFile resolves), the fields are
\* checked, then `await validateAudioFile(files.audio.filepath)`
CreateParsed(r, writeOk) ==
    LET slot == create[r]
        input == slot.input
        name == sanitizeTextInput(input.name)
        named == [slot EXCEPT !.name = name]
        rejected ==
            IF ~input.wellFormed THEN FormDataErrorText
            ELSE IF ~input.audio.present THEN <<>>
            ELSE IF input.audio.size > getMaxFileSizeBytes THEN FileSizeErrorText
            ELSE IF ~StartsWith(input.audio.type, <<"a", "u", "d", "i", "o", "/">>)
            THEN FileTypeErrorText
            ELSE <<>>
        written == /\ input.wellFormed
                   /\ input.audio.present
                   /\ rejected = <<>>
                   /\ writeOk
    IN  /\ slot.pc = "parse"
        /\ create' = [create EXCEPT ![r] =
               IF rejected # <<>> THEN ParseFailure(slot, rejected)
               ELSE IF ~input.audio.present
               THEN Respond(named, ValidateCreateFields(name, FALSE))
               ELSE IF ~writeOk
               THEN ParseFailure([slot EXCEPT !.ioFailed = "write"], WriteErrorText)
               ELSE IF ValidateCreateFields(name, TRUE) = Pending
               THEN [named EXCEPT !.pc = "validate", !.wroteTemp = TRUE]
               ELSE Respond([named EXCEPT !.wroteTemp = TRUE],
                            ValidateCreateFields(name, TRUE))]
        /\ files' = IF written THEN files \cup {TempPath(slot.n)} ELSE files
        /\ UNCHANGED <<listVars, configVars, limiterVars, audioVars, textVars, errVars, gateVars,
                       fileNameVars, models, served, ttsVars>>

\* part_004:129-156  validateAudioFile has returned (readOk: its readFile
\* resolved).  An invalid file goes to `await fs.unlink`; a valid one is
\* checked against the titles in the store and goes to `await fs.readFile`.
CreateValidated(r, readOk) ==
    LET slot == create[r]
        audioValidation ==
            validateAudioFile(readOk /\ TempPath(slot.n) \in files,
                              slot.input.audio.bytes)
        checked == [slot EXCEPT !.audioValidation = audioValidation]
        existingModel == getModelByName(models, slot.name)
    IN  /\ slot.pc = "validate"
        /\ create' = [create EXCEPT ![r] =
               IF ~audioValidation.isValid
               THEN [checked EXCEPT !.pc = "unlinkInvalid"]
               ELSE IF existingModel # Null
               THEN Respond(checked,
                        Failure(409, "Model already exists",
                                "A voice model with this name already exists"))
               ELSE [checked EXCEPT !.pc = "read"]]
        /\ UNCHANGED <<listVars, configVars, limiterVars, audioVars, textVars, errVars, gateVars,
                       fileNameVars, worldVars, ttsVars>>

\* fs.unlink(path): the file is gone when it resolves; when it rejects the
\* file system is as before
UnlinkKeepsFile(path, unlinkOk) == files
Unlink(path, unlinkOk) ==
    IF unlinkOk /\ path \in files THEN files \ {path} ELSE files

\* part_004:132-140  the unlink of an invalid upload has settled, its error
\* dropped by the empty catch
CreateInvalidUnlinked(r, unlinkOk) ==
    LET slot == create[r]
    IN  /\ slot.pc = "unlinkInvalid"
        /\ files' = Unlink(TempPath(slot.n), unlinkOk)
        /\ create' = [create EXCEPT ![r] =
               Respond([slot EXCEPT !.unlinks = @ + 1, !.unlinkFailed = ~unlinkOk],
                   Failure(400, "Invalid file format", slot.audioValidation.error))]
        /\ UNCHANGED <<listVars, configVars, limiterVars, audioVars, textVars, errVars, gateVars,
                       fileNameVars, models, served, ttsVars>>

\* part_004:156-173  fs.readFile has settled; on success the client is
\* built and `await fishAudioClient.cloneVoice(...)` starts the provider call
CreateRead(r, readOk) ==
    LET slot == create[r]
    IN  /\ slot.pc = "read"
        /\ create' = [create EXCEPT ![r] =
               IF readOk /\ TempPath(slot.n) \in files
               THEN [slot EXCEPT !.pc = "clone", !.providerCalls = @ + 1]
               ELSE Respond([slot EXCEPT !.ioFailed = "read"],
                            CreateModelCatch(Error(ReadErrorText)))]
        /\ UNCHANGED <<listVars, configVars, limiterVars, audioVars, textVars, errVars, gateVars,
                       fileNameVars, worldVars, ttsVars>>

\* part_004:168-189 with fish-audio.ts:366-391  cloneVoice has settled with
\* `outcome`; the identifier is checked, the row is inserted (insertOk: the
\* database file takes the write), then `await fs.unlink`
CreateCloned(r, outcome, insertOk) ==
    LET slot == create[r]
        cloned == [slot EXCEPT !.cloneOutcome = outcome]
    IN  /\ slot.pc = "clone"
        /\ IF ~outcome.ok
           THEN /\ create' = [create EXCEPT ![r] =
                       Respond(cloned, CreateModelCatch(WrapProviderError(outcome.text)))]
                /\ models' = models
           ELSE IF MissingModelId(outcome.id)
           THEN /\ create' = [create EXCEPT ![r] =
                       Respond(cloned, CreateModelCatch(Error(NoModelIdText)))]
                /\ models' = models
           ELSE IF InsertRejected(models, NewRow(slot.n, outcome.id.value, slot.name))
           THEN /\ create' = [create EXCEPT ![r] =
                       Respond(cloned, CreateModelCatch(Error(UniqueConstraintText)))]
                /\ models' = models
           ELSE IF ~insertOk
           THEN /\ create' = [create EXCEPT ![r] =
                       Respond([cloned EXCEPT !.ioFailed = "insert"],
                               CreateModelCatch(Error(DiskErrorText)))]
                /\ models' = models
           ELSE /\ models' = Append(models, NewRow(slot.n, outcome.id.value, slot.name))
                /\ create' = [create EXCEPT ![r] =
                       [cloned EXCEPT !.pc = "cleanup", !.inserted = @ + 1]]
        /\ UNCHANGED <<listVars, configVars, limiterVars, audioVars, textVars, errVars, gateVars,
                       fileNameVars, files, served, ttsVars>>

\* part_004:194-204  the 201 response, with the row read back at line 185
CreatedResponse(slot, rows) ==
    createCorsResponse(
        [success |-> TRUE,
         data |-> [model |-> getModelById(rows, generateId(slot.n)),
                   cloneStatus |-> "created"],
         message |-> "Voice model created successfully"],
        201)

\* fs.unlink rejecting
UnlinkErrorText == <<"E", "P", "E", "R", "M", ":", " ", "o", "p", "e", "r", "a", "t", "i", "o", "n", " ", "n", "o", "t", " ", "p", "e", "r", "m", "i", "t", "t", "e", "d", ",", " ", "u", "n", "l", "i", "n", "k">>

\* part_004:187-204  try { await fs.unlink } catch { console.warn }, then the
\* 201 response: what unlink did has no part in the response
UnlinkErrorThrown(slot, rows, unlinkOk) ==
    IF unlinkOk THEN CreatedResponse(slot, rows)
    ELSE CreateModelCatch(Error(UnlinkErrorText))
CleanupResponse(slot, rows, unlinkOk) == CreatedResponse(slot, rows)

\* part_004:187-204  the unlink of the temporary file has settled, its error
\* logged and dropped; the handler answers 201
CreateCleanedUp(r, unlinkOk) ==
    LET slot == create[r]
    IN  /\ slot.pc = "cleanup"
        /\ files' = Unlink(TempPath(slot.n), unlinkOk)
        /\ create' = [create EXCEPT ![r] =
               Respond([slot EXCEPT !.unlinks = @ + 1, !.unlinkFailed = ~unlinkOk],
                       CleanupResponse(slot, models, unlinkOk))]
        /\ UNCHANGED <<listVars, configVars, limiterVars, audioVars, textVars, errVars, gateVars,
                       fileNameVars, models, served, ttsVars>>

\* security.ts:129  the limiter's map after k requests of `identifier` at time 0
RECURSIVE StoreAfter(_, _, _)
StoreAfter(k, identifier, budget) ==
    IF k = 0 THEN <<>>
    ELSE checkRateLimitStore(StoreAfter(k - 1, identifier, budget), identifier,
                             budget, RateWindowMs, 0)

\* The server with an empty table, either fresh or after one client has
\* used up its create-model budget for the window that started at 0.  The
\* handler reads the clock in its rate-limit step only, and what that step
\* does over time is the subject of Spec and SpecLimiter: here the requests
\* arrive within one window.
InitCreateModel ==
    /\ ListIdle
    /\ ConfigIdle
    /\ rateLimitStore \in {<<>>, StoreAfter(CreateModelMaxRequests, "ip1",
                                            CreateModelMaxRequests)}
    /\ now = 0
    /\ maxRequests = 0
    /\ windowMs = 0
    /\ log = <<>>
    /\ AudioIdle
    /\ TextIdle
    /\ ErrIdle
    /\ GateIdle
    /\ FileNameIdle
    /\ models = <<>>
    /\ files = {}
    /\ served = 0
    /\ create = [r \in Slots |-> IdleSlot]
    /\ tts = NotRun

\* the steps of the request in slot r
CreateStep(r) ==
    \/ \E ok \in BOOLEAN : CreateParsed(r, ok)
    \/ \E ok \in BOOLEAN : CreateValidated(r, ok)
    \/ \E ok \in BOOLEAN : CreateInvalidUnlinked(r, ok)
    \/ \E ok \in BOOLEAN : CreateRead(r, ok)
    \/ \E outcome \in CloneOutcomes, ok \in BOOLEAN : CreateCloned(r, outcome, ok)
    \/ \E ok \in BOOLEAN : CreateCleanedUp(r, ok)

\* requests handled one at a time, in slot r1
NextCreateModel ==
    \/ \E headers \in RequestHeaders, input \in CreateInputs :
           CreateStart("r1", headers, input)
    \/ CreateStep("r1")

SpecCreateModel == InitCreateModel /\ [][NextCreateModel]_vars

Done(r) == create[r].pc = "done"

(***************************************************************************)
(* Claims about the create-model handler                                   *)
(***************************************************************************)
Status(r) == create[r].response.status

Titles(rows) == {rows[i].title : i \in 1..Len(rows)}

\* the request in slot r was answered after validateAudioFile rejected its file
RejectedByValidator(r) ==
    /\ Done(r)
    /\ create[r].audioValidation # NotRun
    /\ ~create[r].audioValidation.isValid

\* C12 as stated: a request whose uploaded file fails validateAudioFile ends
\* with status 400, the provider was not called, no row was inserted, and
\* the temporary upload file is gone when the response is returned.
C12_InvalidUploadRejected ==
    \A r \in Slots :
        RejectedByValidator(r) =>
            /\ Status(r) = 400
            /\ create[r].providerCalls = 0
            /\ create[r].inserted = 0
            /\ models = create[r].modelsAtStart
            /\ TempPath(create[r].n) \notin files

\* C12, amended: a request whose uploaded file fails validateAudioFile ends
\* with status 400, the provider was not called, no row was inserted, and
\* the handler has called unlink on the temporary upload file once before
\* the response; the file is gone unless that unlink itself failed.
C12_InvalidUploadRejectedUnlinkTried ==
    \A r \in Slots :
        RejectedByValidator(r) =>
            /\ Status(r) = 400
            /\ create[r].providerCalls = 0
            /\ create[r].inserted = 0
            /\ models = create[r].modelsAtStart
            /\ create[r].unlinks = 1
            /\ (TempPath(create[r].n) \in files => create[r].unlinkFailed)

\* a second request, with a file of plain text, rejected after an earlier
\* request created a model; its temporary file is gone
C12_Witness ==
    /\ RejectedByValidator("r1")
    /\ create["r1"].input.audio.bytes = TextFile
    /\ create["r1"].wroteTemp
    /\ ~create["r1"].unlinkFailed
    /\ TempPath(create["r1"].n) \notin files
    /\ Len(models) = 1

\* the title the request asks for: its name field as parseFormData sanitizes it
RequestedTitle(r) == sanitizeTextInput(create[r].input.name)

TitleTaken(r) ==
    /\ Done(r)
    /\ create[r].input.wellFormed
    /\ RequestedTitle(r) \in Titles(create[r].modelsAtStart)

Refused409(r) ==
    /\ Status(r) = 409
    /\ create[r].providerCalls = 0
    /\ models = create[r].modelsAtStart

\* C13 as stated: with requests handled one at a time, a request whose
\* sanitized title is the title of a row already in the store ends with
\* status 409, without a provider call and with the rows unchanged.
C13_DuplicateTitleRefused ==
    \A r \in Slots : TitleTaken(r) => Refused409(r)

\* C13, amended: with requests handled one at a time, a request that passed
\* rate limiting, form parsing, the field checks and validateAudioFile, and
\* whose sanitized title is the title of a row already in the store, ends
\* with status 409, without a provider call and with the rows unchanged.
C13_DuplicateTitleRefusedAfterValidation ==
    \A r \in Slots :
        (/\ TitleTaken(r)
         /\ create[r].audioValidation # NotRun
         /\ create[r].audioValidation.isValid) => Refused409(r)

\* a request named ' amy' with a valid file, after 'amy' was created
C13_Witness ==
    /\ TitleTaken("r1")
    /\ create["r1"].input.name # RequestedTitle("r1")
    /\ create["r1"].audioValidation # NotRun
    /\ create["r1"].audioValidation.isValid
    /\ Status("r1") = 409

\* C14: when a create-model request that wrote a temporary upload file is
\* answered, that file no longer exists, whichever exit was taken.
C14_TempFileGone ==
    \A r \in Slots :
        (Done(r) /\ create[r].wroteTemp) => TempPath(create[r].n) \notin files

\* the provider answered with a success that carries no usable identifier
NoIdReturned(r) ==
    /\ Done(r)
    /\ create[r].cloneOutcome # NotRun
    /\ create[r].cloneOutcome.ok
    /\ ~Truthy(create[r].cloneOutcome.id)

CreateViolations(r) ==
    {c \in {"name", "audio"} :
        \/ c = "name" /\ (RequestedTitle(r) = <<>> \/ Len(RequestedTitle(r)) > 100)
        \/ c = "audio" /\ ~create[r].input.audio.present}

\* C17 (create-model side): a request that violates several field
\* constraints at once is answered 400 with a details list that has an
\* entry for each violated constraint.
C17_AllViolationsListed ==
    \A r \in Slots :
        (/\ Done(r)
         /\ create[r].input.wellFormed
         /\ Status(r) # 429
         /\ Cardinality(CreateViolations(r)) >= 2) =>
            /\ Status(r) = 400
            /\ "details" \in DOMAIN create[r].response.body
            /\ Len(create[r].response.body.details) >= Cardinality(CreateViolations(r))

(***************************************************************************)
(* tts route (tts/route.ts): the request body and its validation           *)
(***************************************************************************)
\* tts/route.ts:85  the outcome of `await request.json()`: an object with
\* the five properties the handler reads, the value null, or a body that is
\* not JSON
Body(text, modelId, modelName, format, speed) ==
    [json |-> "object", text |-> text, modelId |-> modelId,
     modelName |-> modelName, format |-> format, speed |-> speed]
NullBody == [json |-> "null"]
MalformedBody == [json |-> "malformed"]

\* JSON.parse rejecting the body
JsonSyntaxErrorText == <<"U", "n", "e", "x", "p", "e", "c", "t", "e", "d", " ", "e", "n", "d", " ", "o", "f", " ", "J", "S", "O", "N", " ", "i", "n", "p", "u", "t">>
\* reading body.text of null
NullBodyErrorText == <<"C", "a", "n", "n", "o", "t", " ", "r", "e", "a", "d", " ", "p", "r", "o", "p", "e", "r", "t", "i", "e", "s", " ", "o", "f", " ", "n", "u", "l", "l", " ", "(", "r", "e", "a", "d", "i", "n", "g", " ", "'", "t", "e", "x", "t", "'", ")">>

\* tts/route.ts:88-90  if (body.text) body.text = sanitizeTextInput(body.text)
\* with security.ts:29 for a text that is not a string
SanitizeBodyText(body) ==
    IF Truthy(body.text)
    THEN [body EXCEPT !.text =
             Str(IF body.text.type = "string"
                 THEN sanitizeTextInput(body.text.value) ELSE <<>>)]
    ELSE body

IsBlank(s) == Trim(s) = <<>>

\* tts/route.ts:23
TextMissing(body) ==
    \/ ~Truthy(body.text)
    \/ body.text.type # "string"
    \/ IsBlank(body.text.value)

\* tts/route.ts:28
TextHasScript(body) ==
    /\ Truthy(body.text)
    /\ body.text.type = "string"
    /\ Contains(body.text.value, ScriptOpen)

\* tts/route.ts:32
TextTooLong(body) ==
    /\ Truthy(body.text)
    /\ body.text.type = "string"
    /\ Len(body.text.value) > MaxTextLength

\* tts/route.ts:36
NoModelGiven(body) == ~Truthy(body.modelId) /\ ~Truthy(body.modelName)

\* tts/route.ts:40
BadModelId(body) ==
    /\ Truthy(body.modelId)
    /\ (body.modelId.type # "string" \/ IsBlank(body.modelId.value))

Wav == <<"w", "a", "v">>
Mp3 == <<"m", "p", "3">>

\* tts/route.ts:44
BadFormat(body) ==
    /\ Truthy(body.format)
    /\ body.format \notin {Str(Wav), Str(Mp3)}

\* tts/route.ts:48  body.speed <= 0 || body.speed > 3
MaxSpeed == 3
SpeedOutOfRange(speed) == speed <= 0 \/ speed > MaxSpeed

\* tts/route.ts:48
BadSpeed(body) ==
    /\ Truthy(body.speed)
    /\ (body.speed.type # "number" \/ SpeedOutOfRange(body.speed.value))

\* errors.push(message) when the test holds
Push(errors, test, message) == IF test THEN Append(errors, message) ELSE errors

\* tts/route.ts:20-56  validateTTSRequest
validateTTSRequest(body) ==
    LET e1 == Push(<<>>, TextMissing(body),
                   "Text is required and must be a non-empty string")
        e2 == Push(e1, TextHasScript(body),
                   "Text contains potentially malicious content")
        e3 == Push(e2, TextTooLong(body), "Text must be less than 5000 characters")
        e4 == Push(e3, NoModelGiven(body),
                   "Either modelId or modelName must be provided")
        e5 == Push(e4, BadModelId(body), "modelId must be a non-empty string")
        e6 == Push(e5, BadFormat(body), "Format must be either \"wav\" or \"mp3\"")
        errors == Push(e6, BadSpeed(body), "Speed must be a number between 0 and 3")
    IN  [isValid |-> errors = <<>>, errors |-> errors]

\* tts/route.ts:107-111  the lookup: by id when modelId is given, else by title
LookupByNameFirst(rows, body) ==
    IF Truthy(body.modelName) THEN getModelByName(rows, body.modelName.value)
    ELSE IF Truthy(body.modelId) THEN getModelById(rows, body.modelId.value)
    ELSE Null
LookupModel(rows, body) ==
    IF Truthy(body.modelId) THEN getModelById(rows, body.modelId.value)
    ELSE IF Truthy(body.modelName) THEN getModelByName(rows, body.modelName.value)
    ELSE Null

\* tts/route.ts:121  !voiceModel.fish_model_id
ModelNotReadyNever(voiceModel) == FALSE
ModelNotReady(voiceModel) == voiceModel.fish_model_id = <<>>

\* tts/route.ts:133-138  the request handed to generateSpeech
SpeechRequest(body, voiceModel) ==
    [text |-> Trim(body.text.value),
     voiceId |-> voiceModel.fish_model_id,
     format |-> IF Truthy(body.format) THEN body.format.value ELSE Wav,
     speed |-> IF Truthy(body.speed) THEN body.speed.value ELSE 1]

\* fish-audio.ts:393-410  generateSpeech: audio bytes, or a failure of the
\* provider call
SpeechOutcomes ==
    {[ok |-> TRUE, text |-> <<>>]}
    \cup {[ok |-> FALSE, text |-> t] : t \in ProviderErrorTexts}

\* tts/route.ts:146  fs.writeFile rejecting
NoEntErrorText == <<"E", "N", "O", "E", "N", "T", ":", " ", "n", "o", " ", "s", "u", "c", "h", " ", "f", "i", "l", "e", " ", "o", "r", " ", "d", "i", "r", "e", "c", "t", "o", "r", "y", ",", " ", "o", "p", "e", "n", " ", "'", "p", "u", "b", "l", "i", "c", "/", "a", "u", "d", "i", "o", "'">>
AudioWriteErrorTexts == {WriteErrorText, NoEntErrorText}

\* tts/route.ts:143-144  the generated file, named here by the request number
AudioPath(n) == <<"public/audio/tts", n>>

JsonMark == <<"J", "S", "O", "N">>
NoEntMark == <<"E", "N", "O", "E", "N", "T">>
PermissionMark == <<"p", "e", "r", "m", "i", "s", "s", "i", "o", "n">>

\* tts/route.ts:185-224  the catch of POST
TtsCatch(error) ==
    IF Contains(error.message, JsonMark)
    THEN Failure(400, "Invalid request format", "Request body must be valid JSON")
    ELSE IF Contains(error.message, FishAudioApiMark)
    THEN Failure(502, "External API error",
                 "Failed to generate speech with external service")
    ELSE IF \/ Contains(error.message, NoEntMark)
            \/ Contains(error.message, PermissionMark)
    THEN Failure(500, "File system error", "Failed to save generated audio file")
    ELSE createCorsResponse(
             [success |-> FALSE,
              error |-> "Internal server error",
              message |-> "Failed to generate speech",
              details |-> sanitizeErrorMessage(error)],
             500)

(***************************************************************************)
(* tts route (tts/route.ts:69-225): POST, one action per stretch of code   *)
(* between two awaits.  tts holds the locals of the request being handled  *)
(* and the await it is suspended at.                                       *)
(***************************************************************************)
\* a text one character longer than the sanitizer keeps
LongText == [i \in 1..(MaxTextLength + 1) |-> IF i > MaxTextLength THEN "y" ELSE "x"]

TtsTexts ==
    { Undefined, Str(<<"h", "i">>), Str(<<" ", " ">>), Str(<<"<", "s", "c", "r", "i", "p", "t">>), Num(5) }
TtsModelIds == { Undefined, Str(<<>>), Str(<<"m", "1">>), Str(<<"m", "2">>), Str(<<"m", "9">>), Str(<<" ">>) }
TtsModelNames == { Undefined, Str(<<"a", "m", "y">>), Str(<<"z", "e", "d">>) }
TtsFormats == { Undefined, Str(Mp3), Str(<<"o", "g", "g">>) }
\* speeds are whole numbers here; 'fast' is a speed that is not a number
TtsSpeeds == { Undefined, Num(0), Num(0 - 1), Num(3), Num(4), Str(<<"f", "a", "s", "t">>) }

\* Every combination of the values above, the long text with a few of them,
\* and the two bodies that are not objects.
TtsInputs ==
    {Body(t, i, n, f, s) : t \in TtsTexts, i \in TtsModelIds, n \in TtsModelNames,
                           f \in TtsFormats, s \in TtsSpeeds}
    \cup {Body(Str(LongText), i, Undefined, f, s) :
              i \in {Str(<<"m", "1">>), Str(<<"m", "9">>)},
              f \in {Undefined, Str(<<"o", "g", "g">>)},
              s \in {Undefined, Num(4)}}
    \cup {NullBody, MalformedBody}

\* db.ts:50-55  the table as an earlier run left it: 'amy' is usable, 'bob'
\* has an empty remote identifier (the column is NOT NULL, not non-empty)
StoredModels ==
    << [id |-> <<"m", "1">>, fish_model_id |-> <<"f", "m", "1">>, title |-> <<"a", "m", "y">>],
       [id |-> <<"m", "2">>, fish_model_id |-> <<>>, title |-> <<"b", "o", "b">>] >>

IdleTts ==
    [pc |-> "idle", n |-> 0, clientIP |-> "", input |-> NotRun, body |-> NotRun,
     validation |-> NotRun, voiceModel |-> NotRun, speechRequest |-> NotRun,
     speechOutcome |-> NotRun, ioFailed |-> "", providerCalls |-> 0,
     written |-> 0, response |-> Pending]

TtsRespond(locals, response) == [locals EXCEPT !.pc = "done", !.response = response]

\* tts/route.ts:70-85  rate limiting, then `await request.json()`
TtsStart(headers, input) ==
    LET clientIP == getClientIP(headers)
        rateLimit == checkRateLimitResult(rateLimitStore, clientIP,
                                          TtsMaxRequests, RateWindowMs, now)
        fresh == [IdleTts EXCEPT !.n = served + 1, !.clientIP = clientIP,
                                 !.input = input]
    IN  /\ tts.pc = "idle"
        /\ served < MaxServed
        /\ served' = served + 1
        /\ rateLimitStore' = checkRateLimitStore(rateLimitStore, clientIP,
                                 TtsMaxRequests, RateWindowMs, now)
        /\ tts' = IF rateLimit.allowed THEN [fresh EXCEPT !.pc = "json"]
                  ELSE TtsRespond(fresh, RateLimitResponse)
        /\ UNCHANGED <<listVars, configVars, now, maxRequests, windowMs, log, audioVars, textVars, errVars,
                       gateVars, fileNameVars, models, files, createVars>>

\* tts/route.ts:93-138 on the sanitized body: validation, lookup, readiness,
\* then `await fishAudioClient.generateSpeech(...)`
TtsHandleBody(locals, body) ==
    LET validation == validateTTSRequest(body)
        voiceModel == LookupModel(models, body)
        validated == [locals EXCEPT !.body = body, !.validation = validation]
    IN  IF ~validation.isValid
        THEN TtsRespond(validated,
                 createCorsResponse(
                     [success |-> FALSE,
                      error |-> "Validation failed",
                      message |-> "Invalid request parameters",
                      details |-> validation.errors],
                     400))
        ELSE IF voiceModel = Null
        THEN TtsRespond([validated EXCEPT !.voiceModel = Null],
                 Failure(404, "Model not found",
                         "The specified voice model was not found"))
        ELSE IF ModelNotReady(voiceModel)
        THEN TtsRespond([validated EXCEPT !.voiceModel = voiceModel],
                 Failure(400, "Model not ready", "Voice model is not ready for use"))
        ELSE [validated EXCEPT !.pc = "speech",
                               !.voiceModel = voiceModel,
                               !.speechRequest = SpeechRequest(body, voiceModel),
                               !.providerCalls = @ + 1]

\* tts/route.ts:85-138  request.json() has settled
TtsParsed ==
    /\ tts.pc = "json"
    /\ tts' = CASE tts.input.json = "malformed" ->
                       TtsRespond(tts, TtsCatch(Error(JsonSyntaxErrorText)))
                [] tts.input.json = "null" ->
                       TtsRespond(tts, TtsCatch(Error(NullBodyErrorText)))
                [] OTHER -> TtsHandleBody(tts, SanitizeBodyText(tts.input))
    /\ UNCHANGED <<listVars, configVars, limiterVars, audioVars, textVars, errVars, gateVars,
                   fileNameVars, worldVars, createVars>>

\* tts/route.ts:133-146 with fish-audio.ts:393-410  generateSpeech has
\* settled: its failure is caught at line 185, its audio goes to
\* `await fs.writeFile(audioPath, ...)`.  generateSpeech always sets
\* audioData, so lines 164-183 are not reached.
TtsSpoken(outcome) ==
    /\ tts.pc = "speech"
    /\ tts' = IF outcome.ok
              THEN [tts EXCEPT !.pc = "write", !.speechOutcome = outcome]
              ELSE TtsRespond([tts EXCEPT !.speechOutcome = outcome],
                              TtsCatch(WrapProviderError(outcome.text)))
    /\ UNCHANGED <<listVars, configVars, limiterVars, audioVars, textVars, errVars, gateVars,
                   fileNameVars, worldVars, createVars>>

\* tts/route.ts:146-162  fs.writeFile has resolved: 200 with the file's URL
TtsWritten ==
    /\ tts.pc = "write"
    /\ files' = files \cup {AudioPath(tts.n)}
    /\ tts' = TtsRespond([tts EXCEPT !.written = @ + 1],
                  createCorsResponse(
                      [success |-> TRUE,
                       data |-> [audioUrl |-> AudioPath(tts.n),
                                 format |-> tts.speechRequest.format,
                                 text |-> tts.speechRequest.text,
                                 modelUsed |-> [id |-> tts.voiceModel.id,
                                                title |-> tts.voiceModel.title]],
                       message |-> "Speech generated successfully"],
                      200))
    /\ UNCHANGED <<listVars, configVars, limiterVars, audioVars, textVars, errVars, gateVars,
                   fileNameVars, models, served, createVars>>

\* tts/route.ts:146, 185-224  fs.writeFile has rejected with `message`
TtsWriteFailed(message) ==
    /\ tts.pc = "write"
    /\ tts' = TtsRespond([tts EXCEPT !.ioFailed = "write"], TtsCatch(Error(message)))
    /\ UNCHANGED <<listVars, configVars, limiterVars, audioVars, textVars, errVars, gateVars,
                   fileNameVars, worldVars, createVars>>

\* tts/route.ts:69-225  POST has returned its response: its locals are gone
TtsReturned ==
    /\ tts.pc = "done"
    /\ tts' = IdleTts
    /\ UNCHANGED <<listVars, configVars, limiterVars, audioVars, textVars, errVars, gateVars,
                   fileNameVars, worldVars, createVars>>

\* The server with the stored table, either fresh or after one client has
\* used up its tts budget for the window that started at 0; the requests
\* arrive within that window.
InitTts ==
    /\ ListIdle
    /\ ConfigIdle
    /\ rateLimitStore \in {<<>>, StoreAfter(TtsMaxRequests, "ip1", TtsMaxRequests)}
    /\ now = 0
    /\ maxRequests = 0
    /\ windowMs = 0
    /\ log = <<>>
    /\ AudioIdle
    /\ TextIdle
    /\ ErrIdle
    /\ GateIdle
    /\ FileNameIdle
    /\ models = StoredModels
    /\ files = {}
    /\ served = 0
    /\ create = <<>>
    /\ tts = IdleTts

NextTts ==
    \/ \E headers \in RequestHeaders, input \in TtsInputs : TtsStart(headers, input)
    \/ TtsParsed
    \/ \E outcome \in SpeechOutcomes : TtsSpoken(outcome)
    \/ TtsWritten
    \/ \E message \in AudioWriteErrorTexts : TtsWriteFailed(message)
    \/ TtsReturned

SpecTts == InitTts /\ [][NextTts]_vars

TtsDone == tts # NotRun /\ tts.pc = "done"

(***************************************************************************)
(* Claims about the tts handler                                            *)
(***************************************************************************)
TtsStatus == tts.response.status

\* the request was read as a JSON object by a handler that let it past the
\* rate-limit step, and has been answered
TtsAnswered == TtsDone /\ TtsStatus # 429 /\ tts.input.json = "object"

\* C16 (tts side): whenever the provider call fails, whatever the text of
\* its error, the request ends with status 502 and the generic message,
\* without details; when writing the audio file fails it ends with 500.
C16_ProviderFailureIs502 ==
    /\ (TtsDone /\ tts.speechOutcome # NotRun /\ ~tts.speechOutcome.ok) =>
           /\ TtsStatus = 502
           /\ tts.response.body.message =
                  "Failed to generate speech with external service"
           /\ "details" \notin DOMAIN tts.response.body
    /\ (TtsDone /\ tts.ioFailed = "write") => TtsStatus = 500

\* no row has the id or the title the body asks for
NoRowMatches(body) ==
    \A i \in 1..Len(models) :
        /\ ~(body.modelId.type = "string" /\ models[i].id = body.modelId.value)
        /\ ~(body.modelName.type = "string" /\ models[i].title = body.modelName.value)

NothingGenerated ==
    /\ tts.providerCalls = 0
    /\ tts.written = 0
    /\ AudioPath(tts.n) \notin files

\* C18: a tts request that passed rate limiting and validation ends with 404
\* when no row matches the requested model and with 400 'Model not ready'
\* when the row found has an empty remote identifier; in both cases the
\* provider is not called and no audio file is written.
C18_MissingOrUnreadyModel ==
    (TtsDone /\ tts.validation # NotRun /\ tts.validation.isValid) =>
        /\ NoRowMatches(tts.body) =>
               /\ TtsStatus = 404
               /\ NothingGenerated
        /\ (tts.voiceModel # Null /\ tts.voiceModel.fish_model_id = <<>>) =>
               /\ TtsStatus = 400
               /\ tts.response.body.error = "Model not ready"
               /\ NothingGenerated

\* a valid request for the row whose remote identifier is empty, made after
\* an earlier request had its audio generated
C18_Witness ==
    /\ TtsDone
    /\ tts.validation # NotRun
    /\ tts.validation.isValid
    /\ tts.voiceModel = StoredModels[2]
    /\ TtsStatus = 400
    /\ files # {}

\* C19: a tts request whose text is longer than 5000 characters is answered
\* 400 and does not reach the provider.
C19_LongTextRejected ==
    (/\ TtsAnswered
     /\ tts.input.text.type = "string"
     /\ Len(tts.input.text.value) > 5000) =>
        /\ TtsStatus = 400
        /\ tts.providerCalls = 0

\* C20: a tts request with a numeric speed outside 0 < speed <= 3, zero and
\* negative speeds included, is answered 400 and does not reach the provider.
C20_SpeedRangeEnforced ==
    (/\ TtsAnswered
     /\ tts.input.speed.type = "number"
     /\ ~(0 < tts.input.speed.value /\ tts.input.speed.value <= 3)) =>
        /\ TtsStatus = 400
        /\ tts.providerCalls = 0

(***************************************************************************)
(* Claims about what parseFormData refuses (part_004:41-49)                *)
(***************************************************************************)
\* the request in slot r passed the rate-limit step with a form that parsed
\* and held an audio part, and has been answered
AnsweredUpload(r) ==
    /\ Done(r)
    /\ Status(r) # 429
    /\ create[r].input.wellFormed
    /\ create[r].input.audio.present

NothingCreated(r) ==
    /\ create[r].providerCalls = 0
    /\ create[r].inserted = 0
    /\ models = create[r].modelsAtStart

\* C21: a create-model request whose audio upload is larger than the
\* configured maximum size ends with status 413, without a provider call
\* and without a store write.
C21_OversizeIs413 ==
    \A r \in Slots :
        (AnsweredUpload(r) /\ create[r].input.audio.size > getMaxFileSizeBytes) =>
            /\ Status(r) = 413
            /\ NothingCreated(r)

\* C22: a create-model request whose audio part declares a content type
\* that does not start with 'audio/' is rejected with status 400, without a
\* provider call and without a store write.
C22_NonAudioTypeIs400 ==
    \A r \in Slots :
        (/\ AnsweredUpload(r)
         /\ create[r].input.audio.size <= getMaxFileSizeBytes
         /\ ~StartsWith(create[r].input.audio.type, <<"a", "u", "d", "i", "o", "/">>)) =>
            /\ Status(r) = 400
            /\ NothingCreated(r)

(***************************************************************************)
(* Claims about the cleanup after a successful insert (part_004:180-204)   *)
(***************************************************************************)
\* the request in slot r was answered after its provider call and its
\* insert succeeded and the unlink of its temporary file failed
CleanupFailed(r) ==
    /\ Done(r)
    /\ create[r].inserted = 1
    /\ create[r].unlinkFailed

\* C29: when the provider call and the store insert have succeeded and
\* deleting the temporary upload file then fails, the request still ends
\* with status 201 and the inserted row stays in the store.
C29_CleanupFailureSwallowed ==
    \A r \in Slots :
        CleanupFailed(r) =>
            /\ Status(r) = 201
            /\ create[r].response.body.success
            /\ \E i \in 1..Len(models) :
                   /\ models[i].id = generateId(create[r].n)
                   /\ models[i].title = create[r].name
                   /\ models[i].fish_model_id = create[r].cloneOutcome.id.value
                   /\ create[r].response.body.data.model = models[i]

\* the second request's unlink failed after its row was stored next to the
\* first one's; its temporary file is still there
C29_Witness ==
    /\ CleanupFailed("r1")
    /\ Len(models) = 2
    /\ TempPath(create["r1"].n) \in files
    /\ Status("r1") = 201

(***************************************************************************)
(* Claims about a denied checkRateLimit call (security.ts:151-153)         *)
(***************************************************************************)
\* the step is one call of checkRateLimit, and the call was denied
DeniedCall == log' # log /\ ~log'[Len(log')].result.allowed

\* C26: a denied checkRateLimit call returns the entry's existing resetTime
\* and changes nothing: the identifier's count and resetTime and every other
\* identifier's entry are after the call what they were before it.
C26_DeniedCallChangesNothing ==
    [][DeniedCall =>
          LET call == log'[Len(log')]
          IN  /\ call.identifier \in DOMAIN rateLimitStore
              /\ call.result.resetTime = rateLimitStore[call.identifier].resetTime
              /\ rateLimitStore' = rateLimitStore]_vars

\* two denied calls of one identifier in a row, the second at a later time,
\* while another identifier has an entry of its own: the second call found
\* the count and the resetTime the first one found
C26_Witness ==
    /\ Len(log) >= 2
    /\ Cardinality(DOMAIN rateLimitStore) >= 2
    /\ LET a == log[Len(log) - 1]
           b == log[Len(log)]
       IN  /\ a.identifier = b.identifier
           /\ ~a.result.allowed
           /\ ~b.result.allowed
           /\ b.time > a.time
           /\ maxRequests >= 1
           /\ b.before = a.before
           /\ b.after = a.before

(***************************************************************************)
(* Configuration loader (part_002): envSchema, validateConfig, config,     *)
(* getMaxFileSizeBytes.  Environment variables are strings or unset.       *)
(***************************************************************************)
NaN == [type |-> "nan"]

\* the value of a string of decimal digits
RECURSIVE DigitsValue(_)
DigitsValue(s) ==
    IF s = <<>> THEN 0
    ELSE DigitsValue(SubSeq(s, 1, Len(s) - 1)) * 10
         + ((CHOOSE d \in 1..10 : Digits[d] = s[Len(s)]) - 1)

IsDigits(s) == s # <<>> /\ \A i \in 1..Len(s) : s[i] \in Range(Digits)

\* part_002:8  z.coerce.number() on a string: Number(value), for the strings
\* without fraction or exponent
Number(value) ==
    LET t == Trim(value)
    IN  IF t = <<>> THEN Num(0)
        ELSE IF IsDigits(t) THEN Num(DigitsValue(t))
        ELSE IF t[1] = "+" /\ IsDigits(Tail(t)) THEN Num(DigitsValue(Tail(t)))
        ELSE IF t[1] = "-" /\ IsDigits(Tail(t)) THEN Num(0 - DigitsValue(Tail(t)))
        ELSE NaN

\* part_002:8  .min(1).max(50)
MinFileSizeMb == 1
MaxFileSizeMb == 50
WithinLimitsBelowMax(n) == MinFileSizeMb <= n /\ n < MaxFileSizeMb
WithinLimits(n) == MinFileSizeMb <= n /\ n <= MaxFileSizeMb

Rejected == [ok |-> FALSE]
Parsed(value) == [ok |-> TRUE, value |-> value]

\* part_002:8  MAX_FILE_SIZE_MB: z.coerce.number().min(1).max(50).default(10)
ParseMaxFileSizeMb(raw) ==
    IF raw = Undefined THEN Parsed(DefaultMaxFileSizeMb)
    ELSE IF Number(raw.value).type = "number" /\ WithinLimits(Number(raw.value).value)
    THEN Parsed(Number(raw.value).value)
    ELSE Rejected

\* part_002:5  FISH_AUDIO_API_KEY: z.string().min(1)
ParseApiKey(raw) ==
    IF raw # Undefined /\ Len(raw.value) >= 1 THEN Parsed(raw.value) ELSE Rejected

\* part_002:20-50  validateConfig and the initializer of `config`: the parsed
\* object, or process.exit(1) on a ConfigValidationError
NoConfig == [loaded |-> FALSE]
validateConfig(env) ==
    IF ParseApiKey(env.FISH_AUDIO_API_KEY).ok /\ ParseMaxFileSizeMb(env.MAX_FILE_SIZE_MB).ok
    THEN [loaded |-> TRUE,
          FISH_AUDIO_API_KEY |-> ParseApiKey(env.FISH_AUDIO_API_KEY).value,
          MAX_FILE_SIZE_MB |-> ParseMaxFileSizeMb(env.MAX_FILE_SIZE_MB).value]
    ELSE NoConfig

\* part_002:63-65  getMaxFileSizeBytes on a loaded configuration
MaxFileSizeBytesOf(loadedConfig) == loadedConfig.MAX_FILE_SIZE_MB * 1024 * 1024

(***************************************************************************)
(* The loader on its own: run once, at start-up, on any environment of the *)
(* family below.                                                           *)
(***************************************************************************)
MaxEnvNumber == 60

\* the decimal text of an integer
RECURSIVE DecimalText(_)
DecimalText(n) ==
    IF n < 0 THEN <<"-">> \o DecimalText(0 - n)
    ELSE IF n < 10 THEN <<Digits[n + 1]>>
    ELSE DecimalText(n \div 10) \o <<Digits[(n % 10) + 1]>>

EnvSizes ==
    {Undefined}
    \cup {Str(DecimalText(n)) : n \in (0 - 3)..MaxEnvNumber}
    \cup {Str(<<>>), Str(<<"a", "b", "c">>), Str(<<" ", "7", " ">>), Str(<<"+", "5">>), Str(<<"0", "0", "7">>)}

EnvKeys == {Undefined, Str(<<>>), Str(<<"k", "e", "y">>)}

InitConfig ==
    /\ envIn \in [FISH_AUDIO_API_KEY : EnvKeys, MAX_FILE_SIZE_MB : EnvSizes]
    /\ config = NotRun
    /\ configStage = 0
    /\ ListIdle
    /\ LimiterIdle
    /\ AudioIdle
    /\ TextIdle
    /\ ErrIdle
    /\ GateIdle
    /\ FileNameIdle
    /\ HandlersIdle

\* part_002:41-50  the module is loaded
LoadConfig ==
    /\ configStage = 0
    /\ config' = validateConfig(envIn)
    /\ configStage' = 1
    /\ UNCHANGED <<envIn, listVars, limiterVars, audioVars, textVars, errVars,
                   gateVars, fileNameVars, worldVars, createVars, ttsVars>>

NextConfig == LoadConfig

SpecConfig == InitConfig /\ [][NextConfig]_vars

\* the loader ran with a usable API key
Loaded == configStage = 1 /\ ParseApiKey(envIn.FISH_AUDIO_API_KEY).ok

SizeUnset == envIn.MAX_FILE_SIZE_MB = Undefined
SizeNumber == Number(envIn.MAX_FILE_SIZE_MB.value)
SizeIsNumber == ~SizeUnset /\ SizeNumber.type = "number"

MiB == 1024 * 1024

\* C24 as stated: the loader yields 10 MB when MAX_FILE_SIZE_MB is unset and
\* clamps a supplied number into 1..50 (below 1 yields 1, above 50 yields
\* 50), so getMaxFileSizeBytes is between 1 MiB and 50 MiB.
C24_SizeClamped ==
    Loaded =>
        /\ SizeUnset => (config.loaded /\ config.MAX_FILE_SIZE_MB = 10)
        /\ SizeIsNumber =>
               /\ config.loaded
               /\ config.MAX_FILE_SIZE_MB =
                      (IF SizeNumber.value < 1 THEN 1
                       ELSE IF SizeNumber.value > 50 THEN 50
                       ELSE SizeNumber.value)
               /\ MaxFileSizeBytesOf(config) >= 1 * MiB
               /\ MaxFileSizeBytesOf(config) <= 50 * MiB

\* C24, amended: the loader yields 10 MB when MAX_FILE_SIZE_MB is unset and
\* the supplied number itself when it lies in 1..50; a supplied value below
\* 1, above 50 or not a number yields no configuration (the process exits);
\* whenever there is a configuration getMaxFileSizeBytes is between 1 MiB
\* and 50 MiB.
C24_SizeValidated ==
    /\ Loaded =>
           /\ SizeUnset => (config.loaded /\ config.MAX_FILE_SIZE_MB = 10)
           /\ (SizeIsNumber /\ SizeNumber.value >= 1 /\ SizeNumber.value <= 50) =>
                  (config.loaded /\ config.MAX_FILE_SIZE_MB = SizeNumber.value)
           /\ (SizeIsNumber /\ (SizeNumber.value < 1 \/ SizeNumber.value > 50)) =>
                  ~config.loaded
           /\ (~SizeUnset /\ ~SizeIsNumber) => ~config.loaded
    /\ (configStage = 1 /\ config.loaded) =>
           /\ MaxFileSizeBytesOf(config) >= 1 * MiB
           /\ MaxFileSizeBytesOf(config) <= 50 * MiB

\* the loader ran with MAX_FILE_SIZE_MB = '51' and a usable key, and
\* produced no configuration
C24_Witness ==
    /\ Loaded
    /\ envIn.MAX_FILE_SIZE_MB = Str(<<"5", "1">>)
    /\ SizeNumber = Num(51)
    /\ ~config.loaded

(***************************************************************************)
(* Claims about the lookup of the tts handler (tts/route.ts:103-119)       *)
(***************************************************************************)
\* the request passed validation, so the handler went on to the lookup
LookedUp == TtsDone /\ tts.validation # NotRun /\ tts.validation.isValid

RowsWithId(id) == {i \in 1..Len(models) : models[i].id = id}
RowsWithTitle(title) == {i \in 1..Len(models) : models[i].title = title}

\* a modelId that is a non-empty string
HasModelId(body) == body.modelId.type = "string" /\ body.modelId.value # <<>>

\* C30: when a tts request supplies a modelId, only the modelId is used for
\* the lookup: the row found is the row with that id, and when no row has
\* it the request ends with 404 even if a row has the title modelName;
\* modelName is used only when modelId is absent or empty.
C30_ModelIdTakesPrecedence ==
    LookedUp =>
        /\ HasModelId(tts.body) =>
               IF RowsWithId(tts.body.modelId.value) = {}
               THEN tts.voiceModel = Null /\ TtsStatus = 404
               ELSE tts.voiceModel # Null /\ tts.voiceModel.id = tts.body.modelId.value
        /\ ~HasModelId(tts.body) =>
               IF RowsWithTitle(tts.body.modelName.value) = {}
               THEN tts.voiceModel = Null /\ TtsStatus = 404
               ELSE /\ tts.voiceModel # Null
                    /\ tts.voiceModel.title = tts.body.modelName.value

\* a valid request with a modelId no row has and the modelName of a stored,
\* usable row: 404, no provider call
C30_Witness ==
    /\ LookedUp
    /\ HasModelId(tts.body)
    /\ RowsWithId(tts.body.modelId.value) = {}
    /\ tts.body.modelName.type = "string"
    /\ \E i \in RowsWithTitle(tts.body.modelName.value) : models[i].fish_model_id # <<>>
    /\ TtsStatus = 404
    /\ tts.providerCalls = 0

(***************************************************************************)
(* list-models route (part_003:11-33): GET has no await, so it is one step *)
(***************************************************************************)
\* part_003:11-33  GET: the rows, or the catch when the query throws.  The
\* rows come ordered by created_at (db.ts:65), which has a resolution of one
\* second; data is taken as the set of rows, in no order.
ListModelsResponse(rows, queryOk) ==
    IF queryOk
    THEN createCorsResponse(
             [success |-> TRUE, data |-> Range(rows), count |-> Len(rows)], 200)
    ELSE createCorsResponse(
             [success |-> FALSE,
              error |-> "Failed to fetch voice models",
              message |-> sanitizeErrorMessage(Error(DiskErrorText))],
             500)

ListModels(queryOk) ==
    /\ served < MaxServed
    /\ served' = served + 1
    /\ list' = ListModelsResponse(models, queryOk)
    /\ UNCHANGED <<configVars, limiterVars, audioVars, textVars, errVars, gateVars,
                   fileNameVars, models, files, createVars, ttsVars>>

(***************************************************************************)
(* The three handlers on one server: one rateLimitStore, one table, one    *)
(* file system.  Requests overlap at their awaits: up to two create-model  *)
(* requests are in flight at a time.  Each handler takes its requests from *)
(* a few bodies that between them reach every exit.                        *)
(***************************************************************************)
ServerHeaders ==
    { [forwarded |-> <<"ip1">>, realIP |-> ""] }

ServerCreateInputs ==
    { [wellFormed |-> FALSE, name |-> <<>>, audio |-> NoFile],
      [wellFormed |-> TRUE, name |-> <<>>, audio |-> NoFile],
      [wellFormed |-> TRUE, name |-> <<"a", "m", "y">>,
       audio |-> [present |-> TRUE, bytes |-> WavFile, size |-> Len(WavFile), type |-> <<"a", "u", "d", "i", "o", "/", "w", "a", "v">>]],
      [wellFormed |-> TRUE, name |-> <<"a", "m", "y">>,
       audio |-> [present |-> TRUE, bytes |-> TextFile, size |-> Len(TextFile), type |-> <<"a", "u", "d", "i", "o", "/", "m", "p", "e", "g">>]] }

ServerTtsInputs ==
    { MalformedBody,
      Body(Str(<<"h", "i">>), Undefined, Str(<<"a", "m", "y">>), Undefined, Undefined),
      Body(Str(<<"h", "i">>), Str(<<"m", "9">>), Undefined, Str(Mp3), Num(3)),
      Body(Str(<<"h", "i">>), Str(<<"m", "0">>), Str(<<"a", "m", "y">>), Undefined, Undefined),
      Body(Undefined, Undefined, Undefined, Str(<<"o", "g", "g">>), Num(4)) }

\* db.ts:50-55  a table an earlier run left: 'amy' is usable, 'bob' has an
\* empty remote identifier
ServerStoredModels ==
    << [id |-> <<"m", "8">>, fish_model_id |-> <<"f", "m", "1">>, title |-> <<"a", "m", "y">>],
       [id |-> <<"m", "9">>, fish_model_id |-> <<>>, title |-> <<"b", "o", "b">>] >>

InitServer ==
    /\ rateLimitStore \in {<<>>, StoreAfter(TtsMaxRequests, "ip1", TtsMaxRequests)}
    /\ now = 0
    /\ maxRequests = 0
    /\ windowMs = 0
    /\ log = <<>>
    /\ AudioIdle
    /\ TextIdle
    /\ ErrIdle
    /\ GateIdle
    /\ FileNameIdle
    /\ ConfigIdle
    /\ models \in {<<>>, ServerStoredModels}
    /\ files = {}
    /\ served = 0
    /\ create = [r \in Slots |-> IdleSlot]
    /\ tts = IdleTts
    /\ list = NotRun

\* part_004:85-243  POST has returned its response: its locals are gone
CreateReturned(r) ==
    /\ create[r].pc = "done"
    /\ create' = [create EXCEPT ![r] = IdleSlot]
    /\ UNCHANGED <<listVars, configVars, limiterVars, audioVars, textVars, errVars,
                   gateVars, fileNameVars, worldVars, ttsVars>>

\* part_003:11-33  GET has returned its response
ListReturned ==
    /\ list # NotRun
    /\ list' = NotRun
    /\ UNCHANGED <<configVars, limiterVars, audioVars, textVars, errVars,
                   gateVars, fileNameVars, worldVars, createVars, ttsVars>>

\* db.ts:72-83  saveModel, called on the store directly: the insert, or the
\* constraint error it throws
StoreSave(fishModelId, title) ==
    LET row == NewRow(served + 1, fishModelId, title)
    IN  /\ served < MaxServed
        /\ served' = served + 1
        /\ models' = IF InsertRejected(models, row) THEN models ELSE Append(models, row)
        /\ UNCHANGED <<listVars, configVars, limiterVars, audioVars, textVars, errVars,
                       gateVars, fileNameVars, files, createVars, ttsVars>>

\* db.ts:106-110  deleteModel
StoreDelete(id) ==
    /\ served < MaxServed
    /\ served' = served + 1
    /\ models' = SelectSeq(models, LAMBDA row : row.id # id)
    /\ UNCHANGED <<listVars, configVars, limiterVars, audioVars, textVars, errVars,
                   gateVars, fileNameVars, files, createVars, ttsVars>>

\* db.ts:115-119  updateModelTitle
StoreUpdateTitle(id, title) ==
    /\ served < MaxServed
    /\ served' = served + 1
    /\ models' = [i \in 1..Len(models) |->
                     IF models[i].id = id THEN [models[i] EXCEPT !.title = title]
                     ELSE models[i]]
    /\ UNCHANGED <<listVars, configVars, limiterVars, audioVars, textVars, errVars,
                   gateVars, fileNameVars, files, createVars, ttsVars>>

StoredIds == {models[i].id : i \in 1..Len(models)}
ServerTitles == {<<"a", "m", "y">>, <<"b", "o", "b">>}

\* no request is being handled and every response has been returned
Quiet ==
    /\ \A r \in Slots : create[r].pc = "idle"
    /\ tts.pc = "idle"
    /\ list = NotRun

\* A create-model request arrives at a quiet server, and a second one may
\* arrive while the first is suspended at one of its awaits.
FreeSlot(r) ==
    \/ r = "r1" /\ Quiet
    \/ r = "r2" /\ InFlight("r1") /\ create["r2"].pc = "idle"
                /\ tts.pc = "idle" /\ list = NotRun

\* the steps of the tts request
TtsStep ==
    \/ TtsParsed
    \/ \E outcome \in SpeechOutcomes : TtsSpoken(outcome)
    \/ TtsWritten
    \/ \E message \in AudioWriteErrorTexts : TtsWriteFailed(message)

\* tts and list-models requests arrive at a quiet server: they read the
\* table in a single step and never write it.  The store's own operations
\* are single steps too; served counts them along with the requests.
NextServer ==
    \/ \E r \in Slots, headers \in ServerHeaders, input \in ServerCreateInputs :
           FreeSlot(r) /\ CreateStart(r, headers, input)
    \/ \E r \in Slots : CreateStep(r)
    \/ \E r \in Slots : CreateReturned(r)
    \/ \E headers \in ServerHeaders, input \in ServerTtsInputs :
           Quiet /\ TtsStart(headers, input)
    \/ TtsStep
    \/ TtsReturned
    \/ \E queryOk \in BOOLEAN : Quiet /\ ListModels(queryOk)
    \/ ListReturned
    \/ \E fishModelId \in RemoteIds \cup {<<>>}, title \in ServerTitles :
           Quiet /\ StoreSave(fishModelId, title)
    \/ \E id \in StoredIds : Quiet /\ StoreDelete(id)
    \/ \E id \in StoredIds, title \in ServerTitles : Quiet /\ StoreUpdateTitle(id, title)

SpecServer == InitServer /\ [][NextServer]_vars

(***************************************************************************)
(* Claims about the three handlers on one server                           *)
(***************************************************************************)
\* the responses present in the state: of the create-model requests answered,
\* of the tts request answered, of the latest GET
Responses ==
    {create[r].response : r \in {q \in Slots : Done(q)}}
    \cup (IF TtsDone THEN {tts.response} ELSE {})
    \cup (IF list # NotRun THEN {list} ELSE {})

Envelope(response) ==
    /\ "success" \in DOMAIN response.body
    /\ response.body.success \in BOOLEAN
    /\ response.body.success = (response.status \in {200, 201})
    /\ ~response.body.success =>
           /\ "error" \in DOMAIN response.body
           /\ "message" \in DOMAIN response.body

\* C23: every response of the create-model, tts and list-models handlers
\* carries a boolean success, true exactly when the status is 200 or 201,
\* and every response with success false carries an error and a message.
C23_ResponseEnvelope == \A response \in Responses : Envelope(response)

\* one create-model request answered 201 while the other, overlapping it,
\* was answered with a failure
C23_Witness ==
    /\ Done("r1")
    /\ Done("r2")
    /\ {Status("r1"), Status("r2")} = {201, 502}
    /\ ~create["r2"].response.body.success

FishIds(rows) == {rows[i].fish_model_id : i \in 1..Len(rows)}

\* the step in which the request in slot r leaves its provider call
LeavesClone(r) == create[r].pc = "clone" /\ create'[r].pc # "clone"

\* C27: two create-model requests with the same title that overlap can both
\* pass the title check and both insert.  Every request that passes the
\* check does so because no row has its title at that moment; the insert
\* that follows the provider call adds the request's row whatever titles
\* the store holds by then, and is refused with 409 only for a remote
\* identifier that is already stored.
C27_TitleCheckedOnlyBeforeInsert ==
    [][\A r \in Slots :
          /\ (create[r].pc = "validate" /\ create'[r].pc = "read") =>
                 create[r].name \notin Titles(models)
          /\ (LeavesClone(r) /\ create'[r].pc = "cleanup") =>
                 models' = Append(models,
                               [id |-> generateId(create[r].n),
                                fish_model_id |-> create'[r].cloneOutcome.id.value,
                                title |-> create[r].name])
          /\ (/\ LeavesClone(r)
              /\ create'[r].pc = "done"
              /\ create'[r].response.status = 409) =>
                 /\ create'[r].cloneOutcome.ok
                 /\ Truthy(create'[r].cloneOutcome.id)
                 /\ create'[r].cloneOutcome.id.value \in FishIds(models)]_vars

\* both overlapping requests were answered 201 and the store holds their two
\* rows, with one title
C27_Witness ==
    /\ Done("r1")
    /\ Done("r2")
    /\ Status("r1") = 201
    /\ Status("r2") = 201
    /\ create["r1"].name = create["r2"].name
    /\ Len(models) = 2
    /\ models[1].title = models[2].title
    /\ models[1].fish_model_id # models[2].fish_model_id

\* C28: no two rows of the store share a remote model identifier, whatever
\* store operations and create-model requests have run; a create-model
\* request whose provider-returned identifier is already stored when it
\* comes to insert adds no row and ends with status 409.
C28_RemoteIdUnique ==
    /\ [](\A i, j \in 1..Len(models) :
              models[i].fish_model_id = models[j].fish_model_id => i = j)
    /\ [][\A r \in Slots :
             (/\ LeavesClone(r)
              /\ create'[r].cloneOutcome.ok
              /\ Truthy(create'[r].cloneOutcome.id)
              /\ create'[r].cloneOutcome.id.value \in FishIds(models)) =>
                 /\ models' = models
                 /\ create'[r].pc = "done"
                 /\ create'[r].response.status = 409
                 /\ create'[r].inserted = 0]_vars

\* a request answered 409 because the provider handed it the identifier the
\* request overlapping it had just stored under the same title
C28_Witness ==
    /\ Done("r2")
    /\ Status("r2") = 409
    /\ create["r2"].cloneOutcome # NotRun
    /\ create["r2"].cloneOutcome.ok
    /\ create["r1"].inserted = 1
    /\ create["r1"].cloneOutcome.id = create["r2"].cloneOutcome.id
    /\ Len(models) = 1

(***************************************************************************)
(* The server when every await settles: the provider call and the file     *)
(* operations of a request in flight return, with a result or an error, so *)
(* the step that follows each await is eventually taken.  A request in     *)
(* flight is suspended at one of its awaits, and the step after that await *)
(* is enabled whatever the rest of the state holds, so a step of the       *)
(* request is enabled exactly while it is in flight; weak fairness of the  *)
(* steps of a request, WF_vars(CreateStep(r)) and WF_vars(TtsStep), is     *)
(* written out with InFlight(r) in the place of                            *)
(* ENABLED <<CreateStep(r)>>_vars and TtsInFlight in the place of          *)
(* ENABLED <<TtsStep>>_vars.                                               *)
(***************************************************************************)
TtsInFlight == tts.pc \notin {"idle", "done"}

CreateStepsFair(r) ==
    \/ []<>(~InFlight(r))
    \/ []<><<CreateStep(r)>>_vars

TtsStepsFair ==
    \/ []<>(~TtsInFlight)
    \/ []<><<TtsStep>>_vars

SpecServerLive ==
    /\ SpecServer
    /\ \A r \in Slots : CreateStepsFair(r)
    /\ TtsStepsFair

CreateStatuses == {201, 400, 409, 413, 429, 500, 502}
TtsStatuses == {200, 400, 404, 429, 500, 502}

\* what holds of the requests in every state
AnsweredOnceSoFar ==
    /\ \A r \in Slots :
           /\ create[r].providerCalls <= 1
           /\ InFlight(r) => create[r].response = Pending
           /\ Done(r) => (/\ create[r].response # Pending
                          /\ Status(r) \in CreateStatuses)
    /\ tts.providerCalls <= 1
    /\ TtsInFlight => tts.response = Pending
    /\ TtsDone => (tts.response # Pending /\ TtsStatus \in TtsStatuses)

\* a response, once produced, is the handler's last word: nothing changes
\* in the request until it has been returned
ResponseIsFinal ==
    /\ \A r \in Slots : Done(r) => create'[r] \in {create[r], IdleSlot}
    /\ TtsDone => tts' \in {tts, IdleTts}

\* C25: when the provider call and the file operations return, every
\* create-model and tts request eventually produces a response, and
\* produces one only; its status is one of 201/400/409/413/429/500/502 for
\* create-model and 200/400/404/429/500/502 for tts, and the provider is
\* called at most once for it.
C25_EveryRequestAnsweredOnce ==
    /\ \A r \in Slots : InFlight(r) ~> Done(r)
    /\ TtsInFlight ~> TtsDone
    /\ []AnsweredOnceSoFar
    /\ [][ResponseIsFinal]_vars

\* a tts request answered 200 with the audio of a model that a create-model
\* request of the same run stored, each after one provider call
C25_Witness ==
    /\ TtsDone
    /\ TtsStatus = 200
    /\ tts.providerCalls = 1
    /\ tts.voiceModel \in Range(models)
    /\ tts.voiceModel \notin Range(ServerStoredModels)
    /\ served = MaxServed

====
